---- MODULE Spec2Model ----
(***************************************************************************)
(* A model of the rc-style command interpreter of knieriem/text            *)
(* (package interp, CmdLine.Process and the builtins it dispatches to)     *)
(* and of the quoter, the tokenizer and the environment stack of package   *)
(* rc.                                                                     *)
(*                                                                         *)
(* The quoter and the tokenizer work on strings as sequences of            *)
(* characters.  The interpreter reads command lines as sequences of words  *)
(* (plain words, the block delimiters "{" and "}", NAME=VALUE words,       *)
(* references, the redirections ">", ">>" and "<"); ParseCmdLine below     *)
(* takes a line apart by its words and asks the tokenizer, on the text of  *)
(* the line, whether it refuses it.                                        *)
(* Of the output, what is written to redirection files and to the forward  *)
(* writer is modelled; what goes to Stdout, the prompt text and flag x     *)
(* are not.                                                                *)
(*                                                                         *)
(* MultiScanner (scan.go) and the reader of package tidata, with their     *)
(* goroutines and channels, have a specification each (SpecMulti,          *)
(* SpecTidata); there cl holds the channels and the state of each          *)
(* goroutine.                                                              *)
(***************************************************************************)
EXTENDS Integers, Sequences, FiniteSets, TLC

VARIABLES
    cl,     \* the CmdLine object: its fields cur, inputStack, env, lastOk, ...
    pc,     \* where Process is: "top" (head of the for loop), "sel" (in the
            \* selects, a scan in flight), "done" (returned), "panic"
    ready,  \* the scan goroutine and its channel: "idle", "pending" (spawned,
            \* cl.Scan() not yet evaluated), "true"/"false" (result being sent)
    ictx,   \* the per-command context: "nil", "live", "cancelled"
    ret,    \* what Process returned: "none" before it returns
    nIntr,  \* how many interrupts have been delivered (CmdLine.Interrupt)
    ev      \* history: what the last step of Process did (see Ev0)

vars == <<cl, pc, ready, ictx, ret, nIntr, ev>>

----------------------------------------------------------------------------
(* Bounds of the model *)

MaxRootLines == 3
MaxDepth == 4
MaxIntr == 2

----------------------------------------------------------------------------
(* Values: lists of strings as Go slices (nil or not), environment frames *)

Names == {"*", "a", "0", "OFS", "prefix"}

NilList == [k |-> "nil", v |-> <<>>]
Unbound == [k |-> "unbound", v |-> <<>>]
List(v) == [k |-> "list", v |-> v]

\* s[i:] of a Go slice: slicing nil gives nil, slicing a non-nil slice never does
SliceFrom(x, i) ==
    IF x.k = "nil" THEN NilList
    ELSE List(SubSeq(x.v, i + 1, Len(x.v)))

GlobalFrame ==
    [n \in Names |->
        CASE n = "prefix" -> NilList
          [] n = "OFS" -> List(<<" ">>)
          [] n = "0" -> List(<<"rc">>)
          [] OTHER -> Unbound]

EmptyFrame == [n \in Names |-> Unbound]

RECURSIVE GetFrom(_, _, _)
GetFrom(s, i, name) ==
    IF i = 0 THEN NilList
    ELSE IF s[i][name].k # "unbound" THEN s[i][name]
    ELSE GetFrom(s, i - 1, name)

\* a Get that takes the value of the outermost frame that binds name
EnvGetOutermost(s, name) ==
    IF \A i \in 1..Len(s) : s[i][name].k = "unbound" THEN NilList
    ELSE s[CHOOSE i \in 1..Len(s) :
             /\ s[i][name].k # "unbound"
             /\ \A j \in 1..i - 1 : s[j][name].k = "unbound"][name]

\* EnvStack.Get: the value in the innermost frame that binds name, else nil
EnvGet(s, name) == GetFrom(s, Len(s), name)

\* EnvStack.Set: writes the topmost frame; nothing on an empty stack
EnvSet(s, name, value) ==
    IF Len(s) = 0 THEN s
    ELSE [s EXCEPT ![Len(s)][name] = value]

\* EnvStack.Push
EnvPush(s, m) == Append(s, m)

\* EnvStack.Pop: (*s)[:len-1]; on an empty stack the slice expression panics
EnvPopPanics(s) == Len(s) = 0
EnvPop(s) == SubSeq(s, 1, Len(s) - 1)

\* EnvMap.Insert / EnvStack.Insert: copy the bindings of m into the top frame;
\* s[-1] panics on an empty stack
EnvInsertPanics(s) == Len(s) = 0
EnvInsert(s, m) ==
    [s EXCEPT ![Len(s)] =
        [n \in Names |-> IF m[n].k # "unbound" THEN m[n] ELSE @[n]]]

----------------------------------------------------------------------------
(* Package rc on strings.  Here a string is the sequence of its characters,
   each a string of length one; a list of strings is a sequence of those. *)

\* s[a:b] of Go, with indices counted from 0
Slice(s, a, b) == SubSeq(s, a + 1, b)

\* rc.NeedsQuote: white space, control characters and the characters special
\* to rc (all of them but the backquote, which no string here contains)
NeedsQuote(r) ==
    r \in {" ", "\t", "\r", "\n", "^", "#", "*", "[", "]", "=", "|", "\\",
           "?", "$", "{", "}", "(", ")", "'", "<", ">", "&", ";"}

\* rc.quote: the characters of `unquoted' are kept as they are and split s
\* into parts; a part with a character that needs quoting is put in quotes.
\* ReplaceQuote is strings.Replace(part, "'", "''", -1), addPart what the
\* closure of that name appends to q, quoteFrom the loop from position i on
\* and what follows it
quote(s, unquoted) ==
    LET RECURSIVE ReplaceQuote(_)
        ReplaceQuote(part) ==
            IF part = <<>> THEN <<>>
            ELSE (IF Head(part) = "'" THEN <<"'", "'">> ELSE <<Head(part)>>)
                 \o ReplaceQuote(Tail(part))
        addPart(part, quotePart) ==
            IF quotePart THEN <<"'">> \o ReplaceQuote(part) \o <<"'">> ELSE part
        RECURSIVE quoteFrom(_, _, _, _)
        quoteFrom(i, i0, quotePart, q) ==
            IF i = Len(s)
            THEN IF Len(s) > i0 THEN q \o addPart(Slice(s, i0, Len(s)), quotePart)
                 ELSE q
            ELSE IF s[i + 1] \in unquoted
            THEN IF i > i0
                 THEN quoteFrom(i + 1, i + 1, FALSE,
                                q \o addPart(Slice(s, i0, i), quotePart) \o <<s[i + 1]>>)
                 ELSE quoteFrom(i + 1, i + 1, quotePart, q \o <<s[i + 1]>>)
            ELSE quoteFrom(i + 1, i0, quotePart \/ NeedsQuote(s[i + 1]), q)
    IN  quoteFrom(0, 0, FALSE, <<>>)

Quote(s) == quote(s, {})

\* a QuoteCmd to which "=" is a character like the others
QuoteCmdWhole(s) == quote(s, {})

QuoteCmd(s) == quote(s, {"="})

\* rc.Join of ini.go
RECURSIVE rcJoin(_)
rcJoin(list) ==
    IF list = <<>> THEN <<>>
    ELSE rcJoin(SubSeq(list, 1, Len(list) - 1)) \o <<" ">> \o Quote(list[Len(list)])

\* rc.JoinCmd of ini.go
RECURSIVE rcJoinCmd(_)
rcJoinCmd(list) ==
    IF list = <<>> THEN <<>>
    ELSE rcJoinCmd(SubSeq(list, 1, Len(list) - 1)) \o <<" ">>
         \o QuoteCmd(list[Len(list)])

\* Join of rc/quote.go: the first element is taken as it is
RECURSIVE rcJoinHead(_)
rcJoinHead(list) ==
    IF list = <<>> THEN <<>>
    ELSE IF Len(list) = 1 THEN list[1]
    ELSE rcJoinHead(SubSeq(list, 1, Len(list) - 1)) \o <<" ">>
         \o Quote(list[Len(list)])

----------------------------------------------------------------------------
(* The tokenizer of package rc.  A token is a record: k is its Go type
   ("str" stringToken, "var" varRefToken, "asg" assignmentToken, "redir"
   redirToken, "group" groupToken, "list" stringListToken, "nil" no token),
   s its text, name the group in front of the "=" of an assignment, sub the
   members of a group, list the strings of a string list. *)

NilTok == [k |-> "nil", s |-> <<>>, isCount |-> FALSE, name |-> <<>>,
           sub |-> <<>>, list |-> <<>>]

Tok(k, s) == [NilTok EXCEPT !.k = k, !.s = s]

\* String() of the tokens of a group, one after the other
RECURSIVE groupString(_)
groupString(list) ==
    IF list = <<>> THEN <<>>
    ELSE (CASE Head(list).k = "group" -> groupString(Head(list).sub)
            [] Head(list).k = "asg" -> groupString(Head(list).name) \o Head(list).s
            [] Head(list).k = "list" ->
                 <<"<", "s", "t", "r", "i", "n", "g", "L", "i", "s", "t",
                   "T", "o", "k", "e", "n", ">">>
            [] OTHER -> Head(list).s)
         \o groupString(Tail(list))

\* the variables of Tokenizer.do before the first character; ret: do has
\* returned before the end of s
Do0 == [fields |-> <<>>, fieldsNil |-> TRUE, field |-> <<>>, fieldNil |-> TRUE,
        t |-> NilTok, i0 |-> -1, quoting |-> FALSE, wasq |-> FALSE,
        countAssign |-> TRUE, seenAssign |-> FALSE, nAssign |-> 0,
        err |-> "", ret |-> FALSE]

\* the closure setText of do
setText(d, text) ==
    IF d.t.k = "nil"
    THEN IF Len(d.field) # 0 /\ d.field[Len(d.field)].k = "str"
         THEN [d EXCEPT !.field[Len(d.field)].s = @ \o text]
         ELSE [d EXCEPT !.t = Tok("str", text)]
    ELSE [d EXCEPT !.t.s = text]

\* the closure addField of do: the count of the assignments, setText, and
\* then the token or the group of the field goes to fields
addField(d, s, iPos) ==
    LET addFieldEnd(x) ==
            [x EXCEPT
                !.fields =
                    IF x.t.k # "nil" /\ x.fieldNil THEN Append(@, x.t)
                    ELSE IF x.t.k # "nil" /\ Len(x.field) = 0 THEN Append(@, x.t)
                    ELSE IF x.t.k # "nil"
                    THEN Append(@, [Tok("group", <<>>) EXCEPT
                                       !.sub = Append(x.field, x.t)])
                    ELSE IF x.fieldNil THEN @
                    ELSE IF Len(x.field) = 1 THEN Append(@, x.field[1])
                    ELSE Append(@, [Tok("group", <<>>) EXCEPT !.sub = x.field]),
                !.fieldsNil = @ /\ x.t.k = "nil" /\ x.fieldNil,
                !.field = <<>>, !.fieldNil = TRUE, !.t = NilTok, !.i0 = -1]
    IN  IF d.i0 = -1 THEN d
        ELSE addFieldEnd(setText(
                 [d EXCEPT !.nAssign = IF d.countAssign /\ d.seenAssign
                                       THEN @ + 1 ELSE @,
                           !.seenAssign = IF d.countAssign THEN FALSE ELSE @,
                           !.countAssign = @ /\ d.seenAssign],
                 Slice(s, d.i0, iPos)))

\* the closure flushToken of do
flushToken(d, s, iPos) ==
    LET flushTokenEnd(x) ==
            IF x.t.k # "nil"
            THEN [x EXCEPT !.field = Append(@, x.t), !.fieldNil = FALSE,
                           !.t = NilTok, !.i0 = iPos]
            ELSE [x EXCEPT !.i0 = iPos]
    IN  IF d.i0 = -1 THEN [d EXCEPT !.i0 = iPos]
        ELSE flushTokenEnd(setText(d, Slice(s, d.i0, iPos)))

\* the switch of do for the character at position i, which is outside quotes
\* and no white space.  IsVarChar: unicode.IsLetter, unicode.IsDigit and the
\* other characters of a variable reference
doSpecial(d, s, i) ==
    LET IsVarChar(r) ==
            r \in {"a", "b", "c", "d", "e", "f", "g", "h", "i", "j", "k", "l",
                   "m", "n", "o", "p", "q", "r", "s", "t", "u", "v", "w", "x",
                   "y", "z", "0", "1", "2", "3", "4", "5", "6", "7", "8", "9",
                   "_", "*", "(", ")"}
        doDefault(x) ==
            IF x.t.k = "var" /\ ~IsVarChar(s[i + 1]) THEN flushToken(x, s, i)
            ELSE [x EXCEPT !.i0 = IF @ = -1 THEN i ELSE @]
        doCaret(x) == [flushToken(x, s, i) EXCEPT !.i0 = i + 1]
        doAssign(x) ==
            [x EXCEPT !.t = [Tok("asg", <<>>) EXCEPT !.name = x.field],
                      !.field = <<>>, !.fieldNil = TRUE]
    IN  CASE s[i + 1] \in {"<", ">"} ->
               IF d.t.k = "redir" THEN d
               ELSE [addField(d, s, i) EXCEPT !.t = Tok("redir", <<>>), !.i0 = i]
          [] s[i + 1] = "$" -> [flushToken(d, s, i) EXCEPT !.t = Tok("var", <<>>)]
          [] s[i + 1] = "^" ->
               IF d.i0 # -1 THEN doCaret(d)
               ELSE IF d.fieldsNil THEN [d EXCEPT !.err = "token '^': syntax error"]
               ELSE IF Len(d.fields) = 0 THEN [d EXCEPT !.err = "panic"]
               ELSE doCaret([d EXCEPT
                                !.field = IF d.fields[Len(d.fields)].k = "group"
                                          THEN d.fields[Len(d.fields)].sub
                                          ELSE <<d.fields[Len(d.fields)]>>,
                                !.fieldNil = FALSE,
                                !.fields = SubSeq(@, 1, Len(@) - 1)])
          [] s[i + 1] = "#" ->
               IF d.t.k = "var"
               THEN IF d.t.isCount THEN [d EXCEPT !.err = "token '#': syntax error"]
                    ELSE [d EXCEPT !.t.isCount = TRUE]
               ELSE [addField(d, s, i) EXCEPT !.ret = TRUE]
          [] s[i + 1] = "=" ->
               IF d.t.k # "asg" /\ d.countAssign /\ ~d.seenAssign /\ d.i0 # -1
               THEN doAssign(flushToken([d EXCEPT !.seenAssign = TRUE], s, i))
               ELSE doDefault(d)
          [] OTHER -> doDefault(d)

\* the body of the loop of do for the character at position i
doChar(d, s, handleSpecial, i) ==
    IF s[i + 1] = "'"
    THEN [flushToken(
              IF ~d.quoting
              THEN [d EXCEPT !.i0 = IF d.wasq THEN @ - 1 ELSE @, !.wasq = FALSE,
                             !.quoting = TRUE]
              ELSE [d EXCEPT !.quoting = FALSE, !.wasq = TRUE], s, i)
          EXCEPT !.i0 = i + 1]
    ELSE IF d.quoting THEN [d EXCEPT !.wasq = FALSE]
    ELSE IF s[i + 1] \in {" ", "\t", "\r", "\n"}
    THEN addField([d EXCEPT !.wasq = FALSE], s, i)
    ELSE IF ~handleSpecial
    THEN [d EXCEPT !.wasq = FALSE, !.i0 = IF @ = -1 THEN i ELSE @]
    ELSE doSpecial([d EXCEPT !.wasq = FALSE], s, i)

\* Tokenizer.do from position i on
RECURSIVE doFrom(_, _, _, _)
doFrom(d, s, handleSpecial, i) ==
    IF d.ret \/ d.err # "" THEN d
    ELSE IF i = Len(s) THEN addField(d, s, Len(s))
    ELSE doFrom(doChar(d, s, handleSpecial, i), s, handleSpecial, i + 1)

\* groupToken.fields: the texts of the tokens in front of the first redirection
RECURSIVE fields(_)
fields(list) ==
    IF list = <<>> \/ Head(list).k = "redir" THEN <<>>
    ELSE <<groupString(<<Head(list)>>)>> \o fields(Tail(list))

\* rc.Tokenize
Tokenize(s) == fields(doFrom(Do0, s, FALSE, 0).fields)

\* groupToken.redirection: the text of the first redirection token and of the
\* token after it
RECURSIVE redirection(_)
redirection(list) ==
    IF list = <<>> THEN [Type |-> <<>>, Filename |-> <<>>]
    ELSE IF Head(list).k = "redir"
    THEN [Type |-> Head(list).s,
          Filename |-> IF Len(list) > 1 THEN groupString(<<list[2]>>) ELSE <<>>]
    ELSE redirection(Tail(list))

\* expandEnv on the variable reference x, with Getenv reading env.  IsDigits,
\* Atoi and Itoa stand for the tests and conversions on digits, ArrIdx for
\* the place where arridxRE matches (the position, from 0, of the "(" of a
\* trailing "(digits)", or -1), expandValue for the part after Getenv, where
\* i is the index asked for, or -1
expandVarRef(env, x) ==
    LET Digits == <<"0", "1", "2", "3", "4", "5", "6", "7", "8", "9">>
        IsDigits(s) == \A i \in 1..Len(s) : \E n \in 1..10 : Digits[n] = s[i]
        RECURSIVE Atoi(_)
        Atoi(s) ==
            IF s = <<>> THEN 0
            ELSE 10 * Atoi(SubSeq(s, 1, Len(s) - 1))
                 + (CHOOSE n \in 0..9 : Digits[n + 1] = s[Len(s)])
        RECURSIVE Itoa(_)
        Itoa(n) == IF n < 10 THEN <<Digits[n + 1]>>
                   ELSE Itoa(n \div 10) \o Itoa(n % 10)
        Getenv(ref) == IF ref \in DOMAIN env THEN env[ref] ELSE <<>>
        ref0 == Slice(x.s, 1, Len(x.s))
        IsIdx(i) == /\ ref0[i] = "(" /\ ref0[Len(ref0)] = ")"
                    /\ IsDigits(SubSeq(ref0, i + 1, Len(ref0) - 1))
        ArrIdx == IF \E i \in 1..Len(ref0) - 1 : IsIdx(i)
                  THEN (CHOOSE i \in 1..Len(ref0) - 1 : IsIdx(i)) - 1
                  ELSE -1
        expandValue(value, i) ==
            IF i = -1
            THEN IF Len(value) = 0 THEN NilTok
                 ELSE IF Len(value) = 1 THEN Tok("str", value[1])
                 ELSE [Tok("list", <<>>) EXCEPT !.list = value]
            ELSE IF Len(value) <= i THEN Tok("str", <<>>)
            ELSE Tok("str", value[i + 1])
    IN  IF x.isCount
        THEN [x EXCEPT !.s = Itoa(Len(Getenv(Slice(ref0, 1, Len(ref0)))))]
        ELSE IF Len(ref0) > 0 /\ ref0[1] # "0" /\ IsDigits(ref0)
        THEN expandValue(Getenv(<<"*">>), Atoi(ref0) - 1)
        ELSE IF ArrIdx # -1
        THEN IF Slice(ref0, ArrIdx + 1, Len(ref0) - 1) \in {<<>>, <<"0">>}
             THEN [x EXCEPT !.s = <<>>]
             ELSE expandValue(Getenv(Slice(ref0, 0, ArrIdx)),
                              Atoi(Slice(ref0, ArrIdx + 1, Len(ref0) - 1)) - 1)
        ELSE expandValue(Getenv(ref0), -1)

\* a merge that joins nothing: the tokens stay the members of the group
mergeStringTokensNone(list) == [Tok("group", <<>>) EXCEPT !.sub = list]

\* mergeStringTokens.  mergeFrom is its loop from position i on, where prev is
\* the position of the token that takes the text of the string tokens after
\* it, or 0
mergeStringTokens(list) ==
    LET RECURSIVE mergeFrom(_, _, _, _)
        mergeFrom(l, i, prev, anyMerges) ==
            IF i > Len(l) THEN [list |-> l, anyMerges |-> anyMerges]
            ELSE IF l[i].k \in {"str", "var", "asg", "redir"} /\ prev = 0
            THEN mergeFrom(l, i + 1, i, anyMerges)
            ELSE IF l[i].k = "str"
            THEN mergeFrom([l EXCEPT ![prev].s = @ \o l[i].s, ![i] = NilTok],
                           i + 1, prev, TRUE)
            ELSE mergeFrom(l, i + 1, 0, anyMerges)
        mergeEnd(m) ==
            IF ~m.anyMerges THEN [Tok("group", <<>>) EXCEPT !.sub = m.list]
            ELSE IF Len(SelectSeq(m.list, LAMBDA t : t.k # "nil")) = 1
            THEN SelectSeq(m.list, LAMBDA t : t.k # "nil")[1]
            ELSE [Tok("group", <<>>) EXCEPT
                     !.sub = SelectSeq(m.list, LAMBDA t : t.k # "nil")]
    IN  mergeEnd(mergeFrom(list, 1, 0, FALSE))

\* Tokenizer.expandEnv, with Getenv reading env; the name of an assignment
\* is kept as the members of a group
RECURSIVE rcExpandEnv(_, _)
rcExpandEnv(env, t) ==
    LET AsGroup(x) == IF x.k = "group" THEN x.sub ELSE <<x>> IN
    CASE t.k = "group" ->
           mergeStringTokens([i \in 1..Len(t.sub) |-> rcExpandEnv(env, t.sub[i])])
      [] t.k = "asg" ->
           [t EXCEPT !.name = AsGroup(mergeStringTokens(
                [i \in 1..Len(t.name) |-> rcExpandEnv(env, t.name[i])]))]
      [] t.k = "var" -> expandVarRef(env, t)
      [] OTHER -> t

\* flattenStringLists: the strings of a list of strings become tokens
RECURSIVE flattenStringLists(_)
flattenStringLists(list) ==
    IF list = <<>> THEN <<>>
    ELSE (IF Head(list).k = "list"
          THEN [i \in 1..Len(Head(list).list) |-> Tok("str", Head(list).list[i])]
          ELSE <<Head(list)>>)
         \o flattenStringLists(Tail(list))

\* String() is called on no token: what makes Go panic
RECURSIVE HasNilTok(_)
HasNilTok(list) ==
    /\ list # <<>>
    /\ \/ Head(list).k = "nil"
       \/ HasNilTok(Head(list).sub)
       \/ HasNilTok(Head(list).name)
       \/ HasNilTok(Tail(list))

\* the map built from the assignment tokens in front, in their order
RECURSIVE AssignMap(_)
AssignMap(list) ==
    IF list = <<>> THEN <<>>
    ELSE [n \in DOMAIN AssignMap(SubSeq(list, 1, Len(list) - 1))
                \cup {groupString(list[Len(list)].name)} |->
            IF n = groupString(list[Len(list)].name)
            THEN <<Slice(list[Len(list)].s, 1, Len(list[Len(list)].s))>>
            ELSE AssignMap(SubSeq(list, 1, Len(list) - 1))[n]]

\* Tokenizer.ParseCmdLine; getenv.nil says that the Tokenizer has no Getenv,
\* else Getenv reads getenv.env.  ParseErr is what is returned with an
\* error, ParseExpand the tokens after expansion, ParseEnd the part from
\* flattenStringLists on
rcParseCmdLine(getenv, s) ==
    LET ParseErr(err) ==
            [err |-> err, Assignments |-> <<>>, Fields |-> <<>>,
             Redir |-> [Type |-> <<>>, Filename |-> <<>>]]
        ParseExpand(tokens) ==
            IF getenv.nil THEN tokens
            ELSE SelectSeq([i \in 1..Len(tokens) |->
                               rcExpandEnv(getenv.env, tokens[i])],
                           LAMBDA t : t.k # "nil")
        ParseEnd(tokens, nAssign) ==
            IF \/ HasNilTok(tokens)
               \/ Len(tokens) < nAssign
               \/ \E i \in 1..nAssign : i <= Len(tokens) /\ tokens[i].k # "asg"
            THEN ParseErr("panic")
            ELSE [err |-> "",
                  Assignments |-> AssignMap(SubSeq(tokens, 1, nAssign)),
                  Fields |-> SubSeq(fields(tokens), nAssign + 1, Len(fields(tokens))),
                  Redir |-> redirection(tokens)]
        ParseDone(d) ==
            IF d.err # "" THEN ParseErr(d.err)
            ELSE ParseEnd(flattenStringLists(ParseExpand(d.fields)), d.nAssign)
    IN  ParseDone(doFrom(Do0, s, TRUE, 0))

----------------------------------------------------------------------------
(* Command lines: a line is the sequence of its words *)

\* the characters of the words that lines are made of
Chars(w) ==
    CASE w = "" -> <<>>
      [] w \in {".", "!", "~", "{", "}", "+", ">", "<", "a", "e", "f", "x", "y",
                "0", "1", "2", "3"} -> <<w>>
      [] w = "true" -> <<"t", "r", "u", "e">>
      [] w = "fail" -> <<"f", "a", "i", "l">>
      [] w = "false" -> <<"f", "a", "l", "s", "e">>
      [] w = "nosuch" -> <<"n", "o", "s", "u", "c", "h">>
      [] w = "help" -> <<"h", "e", "l", "p">>
      [] w = "echo" -> <<"e", "c", "h", "o">>
      [] w = "exit" -> <<"e", "x", "i", "t">>
      [] w = "flag" -> <<"f", "l", "a", "g">>
      [] w = "fn" -> <<"f", "n">>
      [] w = "if" -> <<"i", "f">>
      [] w = "not" -> <<"n", "o", "t">>
      [] w = "repeat" -> <<"r", "e", "p", "e", "a", "t">>
      [] w = "break" -> <<"b", "r", "e", "a", "k">>
      [] w = "return" -> <<"r", "e", "t", "u", "r", "n">>
      [] w = "unbind" -> <<"u", "n", "b", "i", "n", "d">>
      [] w = "shift" -> <<"s", "h", "i", "f", "t">>
      [] w = "sleep" -> <<"s", "l", "e", "e", "p">>
      [] w = "_testcond" -> <<"_", "t", "e", "s", "t", "c", "o", "n", "d">>
      [] w = "_!" -> <<"_", "!">>
      [] w = "0s" -> <<"0", "s">>
      [] w = "1s" -> <<"1", "s">>
      [] w = "f1" -> <<"f", "1">>
      [] w = "f2" -> <<"f", "2">>
      [] w = "^" -> <<"^">>
      [] w = "o1" -> <<"o", "1">>
      [] w = "o2" -> <<"o", "2">>
      [] w = "a=1" -> <<"a", "=", "1">>
      [] w = "$1" -> <<"$", "1">>
      [] w = "$##" -> <<"$", "#", "#">>
      [] w = "^x" -> <<"^", "x">>
      [] w = ">>" -> <<">", ">">>
      [] w = "bad" -> <<"b", "a", "d">>
      [] w = "grp.in" -> <<"g", "r", "p", ".", "i", "n">>

\* the text of a line: its words with a space between them
RECURSIVE LineText(_)
LineText(line) ==
    IF line = <<>> THEN <<>>
    ELSE IF Len(line) = 1 THEN Chars(line[1])
    ELSE Chars(line[1]) \o <<" ">> \o LineText(Tail(line))

\* Words of the form NAME=VALUE, with their name and value
AsgWords == {"a=1"}
AsgName(w) == "a"
AsgVal(w) == "1"

\* a ParseCmdLine that accepts every line
ParseNeverFails(line) == FALSE

\* ParseCmdLine fails on the line when Tokenizer.do, with handleSpecial,
\* finds a syntax error in its text
ParseFails(line) == doFrom(Do0, LineText(line), TRUE, 0).err # ""

RECURSIVE CountAssign(_)
\* Tokenizer.do, addField: assignments are counted at the front of the line
\* only; the first field that is no assignment ends the count
CountAssign(line) ==
    IF line # <<>> /\ line[1] \in AsgWords
    THEN 1 + CountAssign(Tail(line))
    ELSE 0

RECURSIVE AsgFrame(_, _)
AsgFrame(line, n) ==
    IF n = 0 THEN EmptyFrame
    ELSE [AsgFrame(line, n - 1) EXCEPT ![AsgName(line[n])] = List(<<AsgVal(line[n])>>)]

\* Tokenizer.expandEnv on a word: the reference $1 becomes the first element
\* of $*, or the empty string when $* has none; any other word is itself
expandEnv(env, w) ==
    IF w = "$1"
    THEN IF Len(EnvGet(env, "*").v) <= 0 THEN "" ELSE EnvGet(env, "*").v[1]
    ELSE w

\* groupToken.fields and redirection: the position of the first word of the
\* line that is a redirection token, or one past the last word
RedirAt(line) ==
    IF \E i \in 1..Len(line) : line[i] \in {">", ">>", "<"}
    THEN CHOOSE i \in 1..Len(line) :
           /\ line[i] \in {">", ">>", "<"}
           /\ \A j \in 1..i - 1 : line[j] \notin {">", ">>", "<"}
    ELSE Len(line) + 1

\* Tokenizer.ParseCmdLine, with Getenv reading env: the leading assignments
\* as an EnvMap, the other fields in front of a redirection, references
\* expanded, as Fields, and the redirection with the word after it
ParseCmdLine(env, line) ==
    LET n == CountAssign(line) IN
    [err |-> ParseFails(line),
     nAssign |-> n,
     Assignments |-> AsgFrame(line, n),
     Fields |-> [i \in 1..(RedirAt(line) - 1 - n) |-> expandEnv(env, line[n + i])],
     Redir |-> [Type |-> IF RedirAt(line) <= Len(line) THEN line[RedirAt(line)]
                         ELSE "",
                Filename |-> IF RedirAt(line) < Len(line)
                             THEN expandEnv(env, line[RedirAt(line) + 1]) ELSE ""]]

\* rc.JoinCmd followed by the tokenizer that reads the joined text back:
\* QuoteCmd renders the empty string as nothing, so an empty field is lost;
\* a word, a quoted "{" or "}" and NAME=VALUE read back as they were
JoinCmd(list) == SelectSeq(list, LAMBDA w : w # "")

\* strconv.ParseUint and time.ParseDuration on the words of the model
IsUint(w) == w \in {"0", "1", "2", "3"}
UintVal(w) == CASE w = "0" -> 0 [] w = "1" -> 1 [] w = "2" -> 2 [] w = "3" -> 3 [] OTHER -> 0
IsDuration(w) == w \in {"0", "0s", "1s"}
DurationIsZero(w) == w \in {"0", "0s"}

\* cl.Open: the files that exist, by name, as their lines
FileNames == {"f1", "f2"}
FileLines(name) ==
    IF name = "f2" THEN << <<"true">>, <<"^x">>, <<"true", "$##">>, <<"true">> >>
    ELSE << <<"!", "true">>, <<"fail">> >>

FuncNames == {"f"}

----------------------------------------------------------------------------
(* Command descriptors *)

Cmd0 ==
    [Arg |-> <<>>, Opt |-> <<>>, Hidden |-> FALSE, ignoreEnv |-> FALSE,
     HideFailure |-> FALSE, weakStatus |-> FALSE, isCompound |-> FALSE,
     Map |-> [nil |-> TRUE, m |-> <<>>]]

\* the user command map handed to NewCmdInterp holds a command that succeeds
\* and one that returns an error,
UserCmds == {"true", "fail"}

\* a command named like the interpreter's `help', and the command `grp' with
\* a map of sub-commands: its own entry "", `sub', `echo', and `in', which
\* has a map again, without an entry ""
InMap == [n \in {"leaf"} |-> [Cmd0 EXCEPT !.Arg = <<"LEAF">>]]

GrpMap ==
    [n \in {"", "sub", "echo", "in"} |->
        CASE n = "" -> [Cmd0 EXCEPT !.Opt = <<"GRP">>]
          [] n = "sub" -> [Cmd0 EXCEPT !.Arg = <<"SUB">>]
          [] n = "echo" -> [Cmd0 EXCEPT !.Arg = <<"GRPECHO">>]
          [] n = "in" -> [Cmd0 EXCEPT !.Map = [nil |-> FALSE, m |-> InMap]]]

cmdMap ==
    [n \in UserCmds \cup {"help", "grp"} |->
        CASE n = "help" -> [Cmd0 EXCEPT !.Arg = <<"USERHELP">>]
          [] n = "grp" -> [Cmd0 EXCEPT !.Map = [nil |-> FALSE, m |-> GrpMap]]
          [] OTHER -> Cmd0]

\* strings.Index(cmdName, ".") on the names of the model: whether there is a
\* dot, and the parts before and after the first one
DotSplit(cmdName) ==
    CASE cmdName = "." -> [dot |-> TRUE, head |-> "", rest |-> ""]
      [] cmdName = "grp.sub" -> [dot |-> TRUE, head |-> "grp", rest |-> "sub"]
      [] cmdName = "grp.echo" -> [dot |-> TRUE, head |-> "grp", rest |-> "echo"]
      [] cmdName = "grp.cat" -> [dot |-> TRUE, head |-> "grp", rest |-> "cat"]
      [] cmdName = "grp.in" -> [dot |-> TRUE, head |-> "grp", rest |-> "in"]
      [] cmdName = "grp.in.leaf" -> [dot |-> TRUE, head |-> "grp", rest |-> "in.leaf"]
      [] cmdName = "in.leaf" -> [dot |-> TRUE, head |-> "in", rest |-> "leaf"]
      [] cmdName = "true.sub" -> [dot |-> TRUE, head |-> "true", rest |-> "sub"]
      [] cmdName = "echo.sub" -> [dot |-> TRUE, head |-> "echo", rest |-> "sub"]
      [] OTHER -> [dot |-> FALSE, head |-> cmdName, rest |-> ""]

BuiltinCmds ==
    {".", "echo", "cat", "if", "_testcond", "!", "_!", "~", "flag", "fn",
     "shift", "unbind", "repeat", "return", "break", "false", "sleep", "exit"}

\* cl.builtin
Builtin(name) ==
    CASE name = "." -> [Cmd0 EXCEPT !.Arg = <<"FILE">>, !.ignoreEnv = TRUE]
      [] name = "echo" -> [Cmd0 EXCEPT !.Opt = <<"ARG", "...">>]
      [] name = "cat" -> [Cmd0 EXCEPT !.Arg = <<"FILE">>]
      [] name = "if" -> [Cmd0 EXCEPT !.Arg = <<"CMD", "...">>, !.isCompound = TRUE]
      [] name = "_testcond" -> [Cmd0 EXCEPT !.Hidden = TRUE]
      [] name = "!" -> [Cmd0 EXCEPT !.Opt = <<"CMD", "...">>, !.isCompound = TRUE,
                                    !.HideFailure = TRUE]
      [] name = "_!" -> [Cmd0 EXCEPT !.Hidden = TRUE, !.HideFailure = TRUE]
      [] name = "~" -> [Cmd0 EXCEPT !.Arg = <<"SUBJECT", "PATTERN", "...">>,
                                    !.HideFailure = TRUE]
      [] name = "flag" -> [Cmd0 EXCEPT !.Arg = <<"f", "+-">>]
      [] name = "fn" -> [Cmd0 EXCEPT !.Opt = <<"NAME", "CMD", "...">>, !.isCompound = TRUE]
      [] name = "shift" -> [Cmd0 EXCEPT !.Opt = <<"N">>]
      [] name = "unbind" -> [Cmd0 EXCEPT !.Arg = <<"NAME">>]
      [] name = "repeat" -> [Cmd0 EXCEPT !.Arg = <<"{N|T}", "CMD">>, !.Opt = <<"ARG", "...">>]
      [] name = "return" -> [Cmd0 EXCEPT !.weakStatus = TRUE]
      [] name = "break" -> [Cmd0 EXCEPT !.weakStatus = TRUE]
      [] name = "false" -> [Cmd0 EXCEPT !.HideFailure = TRUE]
      [] name = "sleep" -> [Cmd0 EXCEPT !.Arg = <<"DURATION">>]
      [] name = "exit" -> Cmd0

\* Process, after `retry:' has found cmd: a command with a map of
\* sub-commands stands for the entry "" of that map.  fwd: the name was not
\* found, which is the case that Process forwards
Found(cmd) ==
    IF ~cmd.Map.nil
    THEN IF "" \in DOMAIN cmd.Map.m
         THEN [ok |-> TRUE, cmd |-> cmd.Map.m[""], fwd |-> FALSE]
         ELSE [ok |-> FALSE, cmd |-> Cmd0, fwd |-> FALSE]
    ELSE [ok |-> TRUE, cmd |-> cmd, fwd |-> FALSE]

RECURSIVE retryAll(_, _, _)
\* a lookup that searches the builtins in the maps of sub-commands as well
retryAll(m, cmdName, isRoot) ==
    IF cmdName \in DOMAIN m THEN Found(m[cmdName])
    ELSE IF cmdName \in BuiltinCmds THEN Found(Builtin(cmdName))
    ELSE IF /\ DotSplit(cmdName).dot
            /\ DotSplit(cmdName).head \in DOMAIN m
            /\ ~m[DotSplit(cmdName).head].Map.nil
    THEN retryAll(m[DotSplit(cmdName).head].Map.m, DotSplit(cmdName).rest, FALSE)
    ELSE [ok |-> FALSE, cmd |-> Cmd0, fwd |-> TRUE]

RECURSIVE retry(_, _, _)
\* Process, from the label `retry:' to the command found: the map m, the
\* builtins at the root only, then the map of the part before the first dot
retry(m, cmdName, isRoot) ==
    IF cmdName \in DOMAIN m THEN Found(m[cmdName])
    ELSE IF isRoot /\ cmdName \in BuiltinCmds THEN Found(Builtin(cmdName))
    ELSE IF /\ DotSplit(cmdName).dot
            /\ DotSplit(cmdName).head \in DOMAIN m
            /\ ~m[DotSplit(cmdName).head].Map.nil
    THEN retry(m[DotSplit(cmdName).head].Map.m, DotSplit(cmdName).rest, FALSE)
    ELSE [ok |-> FALSE, cmd |-> Cmd0, fwd |-> TRUE]

\* Process, the lookup of a command name in cl.cmdMap and cl.builtin
Lookup(name) == retry(cmdMap, name, TRUE)

\* Process, the argument count check: TRUE when n arguments are refused
WrongNArg(cmd, n) ==
    LET narg == Len(cmd.Arg)
        nopt == Len(cmd.Opt)
    IN  IF narg > 0 /\ cmd.Arg[narg] = "..." THEN n < narg - 1
        ELSE IF nopt > 1 /\ cmd.Opt[nopt] = "..." THEN n < narg
        ELSE n > narg + nopt \/ n < narg

----------------------------------------------------------------------------
(* The input stack *)

\* History kept in a stackEntry (no field of the program):
\*   kind    what pushed the frame: "root", "file", "func", "cond" (the
\*           condition of an if), "body" (a CMD pushed by _testcond or by
\*           if not), "not" (the operand of !), "repeat"
\*   N       the count a repeat frame was pushed with (0: none, or timed)
\*   passes  how often the body of a counted repeat frame has been started
\*   prev    the line processed immediately before in this frame: "none",
\*           "other", "if" (an if other than if not), "rep0blk" (a repeat
\*           with a zero count whose CMD opens a block with "{")
\*   tested, ok, ranCmd   for prev = "if": _testcond has run for it, the
\*           lastOk it saw, and whether it pushed CMD
\*   callArgs  for a function frame: $* immediately before the call
G0 ==
    [kind |-> "root", N |-> 0, passes |-> 0, prev |-> "none",
     tested |-> FALSE, ok |-> FALSE, ranCmd |-> FALSE, callArgs |-> <<>>]

NoRepetition == [on |-> FALSE, n |-> 0]

\* a cmdLineReader over a string or a file: the lines not yet scanned, and
\* Text(), the line scanned last
StringReader(lines) == [root |-> FALSE, lines |-> lines, left |-> 0, text |-> <<>>]

\* the scanner handed to NewCmdInterp: it can still deliver `left' lines
RootReader(n) == [root |-> TRUE, lines |-> <<>>, left |-> n, text |-> <<>>]

\* type stackEntry.  w: the name of the file the writer of the frame writes
\* to, "" for cl.Stdout
Entry(rd) ==
    [lineReader |-> rd,
     repetition |-> NoRepetition,
     rewind |-> <<>>,
     popEnv |-> FALSE,
     savedArgs |-> NilList,
     isFunc |-> FALSE,
     isCompound |-> FALSE,
     cond |-> [cmd |-> <<>>, result |-> "nil"],
     w |-> "",
     g |-> G0]

isLoop(stk) == stk.repetition.on

Panic(c) == [c EXCEPT !.panicked = TRUE]

\* a pushStack that saves the prompt whether or not it is blank
pushStackSaveBlank(c, lines, rpt, rewind, kind) ==
    [c EXCEPT
        !.inputStack = Append(@, c.cur),
        !.cur = [Entry(StringReader(lines)) EXCEPT
                    !.repetition = rpt, !.rewind = rewind, !.w = c.lw,
                    !.g.kind = kind],
        !.savedPrompt = c.Prompt,
        !.Prompt = ""]

\* CmdLine.pushStack; every caller hands it the writer of the line that is
\* processed, c.lw
pushStack(c, lines, rpt, rewind, kind) ==
    [c EXCEPT
        !.inputStack = Append(@, c.cur),
        !.cur = [Entry(StringReader(lines)) EXCEPT
                    !.repetition = rpt, !.rewind = rewind, !.w = c.lw,
                    !.g.kind = kind],
        !.savedPrompt = IF c.Prompt # "" THEN c.Prompt ELSE @,
        !.Prompt = ""]

\* CmdLine.pushStringStack
pushStringStack(c, cmds, kind) == pushStack(c, cmds, NoRepetition, <<>>, kind)

\* CmdLine.popStack, after the Pop of the environment, taking the entry at
\* the bottom of the stack for the one on top
popStackRestBottom(c, env1) ==
    LET a == c.cur.savedArgs
        env2 == IF a.k # "nil" THEN EnvSet(env1, "*", a) ELSE env1
        sz == Len(c.inputStack) - 1
    IN  IF sz < 0 THEN Panic(c)
        ELSE [c EXCEPT
                !.env = env2,
                !.cur = c.inputStack[1],
                !.inputStack = Tail(c.inputStack),
                !.Prompt = IF sz = 0 THEN c.savedPrompt ELSE @]

\* CmdLine.popStack, after the Pop of the environment:
\* restore $* and make the entry on top of the stack current
popStackRest(c, env1) ==
    LET a == c.cur.savedArgs
        env2 == IF a.k # "nil" THEN EnvSet(env1, "*", a) ELSE env1
        sz == Len(c.inputStack) - 1
    IN  IF sz < 0 THEN Panic(c)
        ELSE [c EXCEPT
                !.env = env2,
                !.cur = c.inputStack[sz + 1],
                !.inputStack = SubSeq(c.inputStack, 1, sz),
                !.Prompt = IF sz = 0 THEN c.savedPrompt ELSE @]

\* CmdLine.popStack
popStack(c) ==
    IF c.panicked THEN c
    ELSE IF c.cur.popEnv
    THEN IF EnvPopPanics(c.env) THEN Panic(c) ELSE popStackRest(c, EnvPop(c.env))
    ELSE popStackRest(c, c.env)

RECURSIVE popStackAll(_)
\* CmdLine.popStackAll with an `if' for its `for': one frame is popped
popStackOne(c) ==
    IF c.panicked \/ Len(c.inputStack) = 0 THEN c
    ELSE popStack(c)

\* CmdLine.popStackAll
popStackAll(c) ==
    IF c.panicked \/ Len(c.inputStack) = 0 THEN c
    ELSE popStackAll(popStack(c))

\* history: a function frame called without inline assignments returns, by
\* exhaustion or by return; gret remembers the $* it was called with
NoteReturn(c) ==
    IF c.cur.isFunc /\ ~c.cur.popEnv
    THEN [c EXCEPT !.gret = [on |-> TRUE, args |-> c.cur.g.callArgs]]
    ELSE c

RECURSIVE breakFrom(_, _)
breakFrom(c, loop) ==
    IF c.panicked THEN [c |-> c, err |-> ""]
    ELSE IF Len(c.inputStack) = 0 \/ c.cur.isFunc
    THEN IF ~loop
         THEN [c |-> IF c.cur.isFunc THEN popStackAll(c) ELSE c,
               err |-> "not within a loop"]
         ELSE [c |-> c, err |-> ""]
    ELSE LET c1 == popStack(c) IN
         IF loop THEN [c |-> c1, err |-> ""]
         ELSE breakFrom(c1, isLoop(c1.cur))

\* CmdLine.breakLoop
breakLoop(c) == breakFrom(c, isLoop(c.cur))

RECURSIVE returnFromFunc(_)
\* a `return' that leaves the current frame only
returnFromFrame(c) ==
    IF c.panicked THEN [c |-> c, err |-> ""]
    ELSE IF Len(c.inputStack) = 0 THEN [c |-> c, err |-> "not within a function"]
    ELSE [c |-> popStack(NoteReturn(c)), err |-> ""]

\* CmdLine.returnFromFunc
returnFromFunc(c) ==
    IF c.panicked THEN [c |-> c, err |-> ""]
    ELSE IF c.cur.isFunc THEN [c |-> popStack(NoteReturn(c)), err |-> ""]
    ELSE IF Len(c.inputStack) = 0 THEN [c |-> c, err |-> "not within a function"]
    ELSE returnFromFunc(popStack(c))

\* CmdLine.setFnError (the error handler's output is not modelled)
setFnError(c) ==
    [c EXCEPT !.lastOk = FALSE,
              !.exitFlag = IF c.flags.e /\ ~c.cur.isCompound THEN TRUE ELSE @]

\* repetition.done, for a repetition that is not nil: the result, and the
\* count left; `expired' is time.Now().After(r.end)
done(r, expired) ==
    IF ~r.on THEN [done |-> TRUE, n |-> r.n]
    ELSE IF r.n > 1 THEN [done |-> FALSE, n |-> r.n - 1]
    ELSE IF r.n = 0 THEN [done |-> expired, n |-> r.n]
    ELSE [done |-> TRUE, n |-> r.n]

----------------------------------------------------------------------------
(* Blocks *)

\* the blocks the root scanner may deliver after a line that ends in "{":
\* the lines up to, not including, the closing "}"
RootBlocks ==
    << <<>>,
       << <<"true">> >>,
       << <<"shift">>, <<"a=1", "return">> >> >>

RECURSIVE BlockEnd(_, _)
\* the index of the first line of `lines', from i on, that is "}"; 0 if none
BlockEnd(lines, i) ==
    IF i > Len(lines) THEN 0
    ELSE IF lines[i] = <<"}">> THEN i
    ELSE BlockEnd(lines, i + 1)

\* CmdLine.scanBlock: reads the current scanner up to a line "}".  On the
\* root scanner blk chooses what the input holds: block number blk, or the
\* end of the input (blk = 0)
scanBlock(c, blk) ==
    LET rd == c.cur.lineReader IN
    IF rd.root
    THEN IF blk = 0
         THEN [c |-> [c EXCEPT !.cur.lineReader.left = 0, !.cur.lineReader.text = <<>>],
               block |-> <<>>, err |-> "unexpected EOF"]
         ELSE [c |-> [c EXCEPT !.cur.lineReader.left = @ - (Len(RootBlocks[blk]) + 1),
                               !.cur.lineReader.text = <<"}">>],
               block |-> RootBlocks[blk], err |-> ""]
    ELSE LET i == BlockEnd(rd.lines, 1) IN
         IF i = 0
         THEN [c |-> [c EXCEPT !.cur.lineReader.lines = <<>>, !.cur.lineReader.text = <<>>],
               block |-> <<>>, err |-> "unexpected EOF"]
         ELSE [c |-> [c EXCEPT !.cur.lineReader.lines = SubSeq(rd.lines, i + 1, Len(rd.lines)),
                               !.cur.lineReader.text = <<"}">>],
               block |-> SubSeq(rd.lines, 1, i - 1), err |-> ""]

\* whether choice blk is possible for a block read from the current scanner
BlockChoiceOk(c, blk) ==
    IF c.cur.lineReader.root
    THEN IF blk = 0 THEN TRUE
         ELSE Len(RootBlocks[blk]) + 1 <= c.cur.lineReader.left
    ELSE blk = 0

\* CmdLine.ParseCmd: a single command as one line, or the block that follows
ParseCmd(c, f, blk) ==
    IF f[1] # "{"
    THEN [c |-> c, cmd |-> <<JoinCmd(f)>>, err |-> ""]
    ELSE LET b == scanBlock(c, blk) IN
         [c |-> b.c, cmd |-> b.block,
          err |-> IF b.err # "" THEN "error while parsing function body" ELSE ""]

----------------------------------------------------------------------------
(* Redirection.  cl.redirFileMap gives, by name, the file that is cached
   (cached), with how often it was opened and closed (history), whether it was
   opened with O_APPEND and the offset of the handle, counted in pieces
   written; cl.fs is the content of the files by name, the pieces written one
   after the other *)

\* the names OpenRedirFile can open
RedirNames == {"o1"}

NoFile == [cached |-> FALSE, opens |-> 0, closes |-> 0, app |-> FALSE, off |-> 0]

\* a redirect that leaves the content of a cached file as it is
redirectKeep(c, op, filename) ==
    IF op \notin {">", ">>"} THEN [c |-> c, err |-> "redirect"]
    ELSE IF filename \notin RedirNames THEN [c |-> c, err |-> "open"]
    ELSE IF c.redirFileMap[filename].cached
    THEN [c |-> [c EXCEPT !.lw = filename], err |-> ""]
    ELSE [c |-> [c EXCEPT !.redirFileMap[filename] =
                              [@ EXCEPT !.cached = TRUE, !.opens = @ + 1,
                                        !.app = (op = ">>"), !.off = 0],
                          !.fs[filename] = IF op = ">" THEN <<>> ELSE @,
                          !.lw = filename],
          err |-> ""]

\* CmdLine.redirect: the CmdLine after it, with the writer it returns as
\* c.lw, and the error.  A cached file is emptied for ">" (Seek, Truncate) and
\* taken as it is for ">>"; else the file is opened, with O_TRUNC or with
\* O_APPEND, and cached
redirect(c, op, filename) ==
    IF op \notin {">", ">>"} THEN [c |-> c, err |-> "redirect"]
    ELSE IF filename \in RedirNames /\ c.redirFileMap[filename].cached
    THEN [c |-> [c EXCEPT !.redirFileMap[filename].off = IF op = ">" THEN 0 ELSE @,
                          !.fs[filename] = IF op = ">" THEN <<>> ELSE @,
                          !.lw = filename],
          err |-> ""]
    ELSE IF filename \notin RedirNames THEN [c |-> c, err |-> "open"]
    ELSE [c |-> [c EXCEPT !.redirFileMap[filename] =
                              [@ EXCEPT !.cached = TRUE, !.opens = @ + 1,
                                        !.app = (op = ">>"), !.off = 0],
                          !.fs[filename] = IF op = ">" THEN <<>> ELSE @,
                          !.lw = filename],
          err |-> ""]

\* writer.print on the writer of the line: one Write of the piece to the
\* file, at the end of it with O_APPEND, else at the offset of the handle;
\* what goes to cl.Stdout is not kept
Write(c, piece) ==
    IF c.lw = "" THEN c
    ELSE IF c.redirFileMap[c.lw].app
    THEN [c EXCEPT !.fs[c.lw] = Append(@, piece),
                   !.redirFileMap[c.lw].off = Len(c.fs[c.lw]) + 1]
    ELSE [c EXCEPT !.fs[c.lw] = SubSeq(@, 1, c.redirFileMap[c.lw].off)
                                  \o <<piece>>
                                  \o SubSeq(@, c.redirFileMap[c.lw].off + 2, Len(@)),
                   !.redirFileMap[c.lw].off = @ + 1]

\* a cleanup that closes no file
cleanupNone(c) == c

\* CmdLine.cleanup, deferred by Process: every cached file is closed
cleanup(c) ==
    [c EXCEPT !.redirFileMap =
                  [n \in DOMAIN @ |-> IF @[n].cached
                                      THEN [@[n] EXCEPT !.closes = @ + 1]
                                      ELSE @[n]]]

----------------------------------------------------------------------------
(* The builtins: each Fn gives the CmdLine after it and the error it returns *)

Ok(c) == [c |-> c, err |-> ""]
Err(c, e) == [c |-> c, err |-> e]

\* builtin "."
fnDot(c, arg) ==
    IF arg[2] \in FileNames
    THEN Ok(pushStack(c, FileLines(arg[2]), NoRepetition, <<>>, "file"))
    ELSE Err(c, "open")

\* builtin "cat"
fnCat(c, arg) ==
    IF arg[2] \in FileNames THEN Ok(Write(c, FileLines(arg[2]))) ELSE Err(c, "open")

\* builtin "if"
fnIf(c, arg, blk) ==
    LET p == ParseCmd(c, <<arg[Len(arg)]>>, blk) IN
    IF p.err # "" THEN Err(p.c, p.err)
    ELSE IF arg[2] = "not"
    THEN IF p.c.cur.cond.result = "nil"
         THEN Err(p.c, "`if not' does not follow `if'")
         ELSE IF p.c.cur.cond.result = "false"
         THEN Ok(pushStringStack(p.c, p.cmd, "body"))
         ELSE Ok(p.c)
    ELSE LET cond == <<JoinCmd(SubSeq(arg, 2, Len(arg) - 1)), <<"_testcond">> >>
             c1 == pushStringStack(p.c, cond, "cond")
         IN  Ok([c1 EXCEPT !.cur.cond.cmd = p.cmd, !.cur.isCompound = TRUE])

\* builtin "_testcond"
fnTestcond(c) ==
    LET cmd == c.cur.cond.cmd
        ok == c.lastOk
        top == Len(c.inputStack)
        \* history: _testcond runs for the if that pushed this condition
        forIf == c.cur.g.kind = "cond" /\ top > 0
                 /\ c.inputStack[top].g.prev = "if" /\ ~c.inputStack[top].g.tested
        h == IF forIf
             THEN [c EXCEPT !.inputStack[top].g.tested = TRUE,
                            !.inputStack[top].g.ok = ok,
                            !.inputStack[top].g.ranCmd = ok /\ cmd # <<>>]
             ELSE c
    IN  IF cmd = <<>> THEN Ok(h)
        ELSE LET c1 == [h EXCEPT !.cur.cond.cmd = <<>>,
                                 !.inputStack[top].cond.result =
                                     IF ok THEN "true" ELSE "false"]
             IN  IF ok THEN Ok(pushStringStack(c1, cmd, "body")) ELSE Ok(c1)

\* builtin "!"
fnNot(c, arg) ==
    IF Len(arg) = 1 THEN Err(c, "false")
    ELSE LET cmd == <<JoinCmd(Tail(arg)), <<"_!">> >>
             cplx == c.cur.isCompound
             c1 == pushStringStack(c, cmd, "not")
         IN  Ok([c1 EXCEPT !.cur.isCompound = cplx])

\* builtin "_!" without the inversion
fnNotEndPlain(c) == IF c.lastOk THEN Ok(c) ELSE Err(c, "false")

\* builtin "_!"
fnNotEnd(c) == IF c.lastOk THEN Err(c, "false") ELSE Ok(c)

\* builtin "~": path.Match on words without pattern characters, and "*"
fnMatch(c, arg) ==
    IF \E i \in 3..Len(arg) : arg[i] = arg[2] \/ arg[i] = "*"
    THEN Ok(c) ELSE Err(c, "no match")

\* builtin "flag"
fnFlag(c, arg) ==
    LET v == arg[3] = "+" IN
    IF arg[2] = "e" THEN Ok([c EXCEPT !.flags.e = v])
    ELSE IF arg[2] = "x" THEN Ok([c EXCEPT !.flags.x = v])
    ELSE Err(c, "unknown flag")

\* a parseFunc that stores what ParseCmd has read, error or not
parseFuncPartial(c, name, args, blk) ==
    LET p == ParseCmd(c, args, blk) IN
    IF p.err # "" THEN Err([p.c EXCEPT !.funcMap[name] = [def |-> TRUE, body |-> p.cmd]], p.err)
    ELSE Ok([p.c EXCEPT !.funcMap[name] = [def |-> TRUE, body |-> p.cmd]])

\* CmdLine.parseFunc
parseFunc(c, name, args, blk) ==
    LET p == ParseCmd(c, args, blk) IN
    IF p.err # "" THEN Err(p.c, p.err)
    ELSE Ok([p.c EXCEPT !.funcMap[name] = [def |-> TRUE, body |-> p.cmd]])

\* builtin "fn"
fnFn(c, arg, blk) ==
    IF Len(arg) <= 2 THEN Ok(c)
    ELSE parseFunc(c, arg[2], SubSeq(arg, 3, Len(arg)), blk)

\* builtin "shift"
fnShift(c, arg) ==
    IF Len(arg) = 2 /\ ~IsUint(arg[2]) THEN Err(c, "invalid syntax")
    ELSE LET u == IF Len(arg) = 2 THEN UintVal(arg[2]) ELSE 1
             args == EnvGet(c.env, "*")
             i == IF u > Len(args.v) THEN Len(args.v) ELSE u
         IN  Ok([c EXCEPT !.env = EnvSet(c.env, "*", SliceFrom(args, i))])

\* builtin "unbind"
fnUnbind(c, arg) ==
    IF arg[2] \in DOMAIN c.funcMap /\ c.funcMap[arg[2]].def
    THEN Ok([c EXCEPT !.funcMap[arg[2]] = [def |-> FALSE, body |-> <<>>]])
    ELSE Err(c, "function not found")

\* CmdLine.repeatCmd
repeatCmd(c, arg, blk) ==
    IF ~IsDuration(arg[1]) /\ ~IsUint(arg[1]) THEN Err(c, "invalid syntax")
    ELSE LET i == IF IsDuration(arg[1]) THEN 0 ELSE UintVal(arg[1])
             dZero == IF IsDuration(arg[1]) THEN DurationIsZero(arg[1]) ELSE TRUE
         IN  IF i = 0 /\ dZero THEN Ok(c)
             ELSE LET p == ParseCmd(c, Tail(arg), blk) IN
                  IF p.err # "" THEN Err(p.c, p.err)
                  ELSE LET c1 == pushStack(p.c, p.cmd, [on |-> TRUE, n |-> i], p.cmd, "repeat")
                       IN  Ok([c1 EXCEPT !.cur.g.N = i, !.cur.g.passes = IF i > 0 THEN 1 ELSE 0])

\* builtin "sleep": the timer fires, or the context is done first
fnSleep(c, arg, interrupted) ==
    IF ~IsDuration(arg[2]) THEN Err(c, "invalid duration")
    ELSE IF interrupted THEN Err(c, "interrupted")
    ELSE Ok(c)

\* cmd.Fn(ictx, args) for the command found under `name'
Fn(c, name, arg, blk, interrupted) ==
    CASE name = "true" -> Ok(c)
      [] name = "fail" -> Err(c, "failed")
      [] name = "." -> fnDot(c, arg)
      [] name = "echo" -> Ok(Write(c, SelectSeq(Tail(arg), LAMBDA a : a # "")))
      [] name = "cat" -> fnCat(c, arg)
      [] name = "if" -> fnIf(c, arg, blk)
      [] name = "_testcond" -> fnTestcond(c)
      [] name = "!" -> fnNot(c, arg)
      [] name = "_!" -> fnNotEnd(c)
      [] name = "~" -> fnMatch(c, arg)
      [] name = "flag" -> fnFlag(c, arg)
      [] name = "fn" -> fnFn(c, arg, blk)
      [] name = "shift" -> fnShift(c, arg)
      [] name = "unbind" -> fnUnbind(c, arg)
      [] name = "repeat" -> repeatCmd(c, Tail(arg), blk)
      [] name = "return" -> returnFromFunc(c)
      [] name = "break" -> breakLoop(c)
      [] name = "false" -> Err(c, "false")
      [] name = "sleep" -> fnSleep(c, arg, interrupted)
      [] name = "exit" -> Ok([c EXCEPT !.exitFlag = TRUE])

----------------------------------------------------------------------------
(* One line of Process: from cl.Text() to the `continue' that ends it *)

\* CmdLine.help, as far as it touches the interpreter: a name it does not
\* find in the user map is reported through setFnError
help(c, args) ==
    IF Len(args) > 0 /\ args[1] \notin DOMAIN cmdMap \cup {"builtin"} THEN setFnError(c) ELSE c

\* history: the record of a step
Ev0 ==
    [kind |-> "init", what |-> "", name |-> "", line |-> <<>>,
     weak |-> FALSE, hide |-> FALSE, fnErr |-> FALSE, intr |-> FALSE,
     ifnot |-> FALSE, lastOk0 |-> TRUE, depth0 |-> 0,
     prev |-> "none", prevTested |-> FALSE, prevOk |-> FALSE, prevRan |-> FALSE,
     ret |-> "none", N |-> 0, passes |-> 0]

\* history: whether $* is again what the function that returned in this step
\* was called with
RetOf(c) ==
    IF ~c.gret.on THEN "none"
    ELSE IF EnvGet(c.env, "*").v = c.gret.args THEN "ok" ELSE "bad"

IsZeroRepeat(args) ==
    Len(args) >= 2 /\ args[1] = "repeat" /\ IsDuration(args[2]) /\ DurationIsZero(args[2])

\* history: what the line just processed is to the line that follows it in
\* the same frame
PrevOf(what, args, fnErr) ==
    IF what = "ran" /\ args[1] = "if" /\ args[2] # "not" THEN "if"
    ELSE IF what = "ran" /\ IsZeroRepeat(args) /\ Len(args) >= 3 /\ args[3] = "{" /\ ~fnErr
    THEN "rep0blk"
    ELSE "other"

\* history: note in the frame the line was read from (entry d + 1 counted from
\* the bottom of the stack, if it is still there) what the line was
NotePrev(c, d, prev) ==
    LET fresh(g) == [g EXCEPT !.prev = prev, !.tested = FALSE, !.ok = FALSE, !.ranCmd = FALSE]
    IN  IF Len(c.inputStack) > d THEN [c EXCEPT !.inputStack[d + 1].g = fresh(@)]
        ELSE IF Len(c.inputStack) = d THEN [c EXCEPT !.cur.g = fresh(@)]
        ELSE c

\* the end of a line: the CmdLine it leaves and the record of the step
Continue(c0, c1, what, args, d) ==
    LET g == c0.cur.g
        c2 == IF what = "empty" THEN c1 ELSE NotePrev(c1, Len(c0.inputStack), PrevOf(what, args, d.fnErr))
    IN  [c |-> c2,
         intr |-> d.intr,
         ev |-> [Ev0 EXCEPT
                    !.kind = "line", !.what = what,
                    !.name = IF args = <<>> THEN "" ELSE args[1],
                    !.line = c0.cur.lineReader.text,
                    !.weak = d.weak, !.hide = d.hide, !.fnErr = d.fnErr, !.intr = d.intr,
                    !.ifnot = Len(args) >= 2 /\ args[1] = "if" /\ args[2] = "not",
                    !.lastOk0 = c0.lastOk, !.depth0 = Len(c0.inputStack),
                    !.prev = g.prev, !.prevTested = g.tested, !.prevOk = g.ok,
                    !.prevRan = g.ranCmd,
                    !.ret = RetOf(c2)]]

D0 == [weak |-> FALSE, hide |-> FALSE, fnErr |-> FALSE, intr |-> FALSE]

\* Process: dispatch to a function (cl.funcMap)
callFunc(c, p, args) ==
    LET privEnv == p.nAssign # 0
        env1 == IF privEnv THEN EnvPush(c.env, p.Assignments) ELSE c.env
        c1 == pushStringStack([c EXCEPT !.env = env1], c.funcMap[args[1]].body, "func")
        c2 == IF privEnv THEN [c1 EXCEPT !.cur.popEnv = TRUE]
              ELSE [c1 EXCEPT !.cur.savedArgs = EnvGet(env1, "*")]
    IN  [c2 EXCEPT !.env = EnvSet(env1, "*", List(Tail(args))),
                   !.cur.isFunc = TRUE,
                   !.cur.g.callArgs = EnvGet(c.env, "*").v]

\* Process, lines 884-888: the inline assignments of the line become a new
\* frame of the environment, unless the command has ignoreEnv
pushEnv(c, p, cmd) ==
    IF p.nAssign # 0 /\ ~cmd.ignoreEnv
    THEN [c EXCEPT !.env = EnvPush(c.env, p.Assignments)] ELSE c

\* Process, lines 905-907, with HideFailure applied before the status is
\* recorded
lastOkAfterHidden(cmd, err, lastOk) ==
    IF ~cmd.weakStatus THEN cmd.HideFailure \/ err = "" ELSE lastOk

\* Process, lines 905-907: cl.lastOk after a command whose error is err
lastOkAfter(cmd, err, lastOk) ==
    IF ~cmd.weakStatus THEN err = "" ELSE lastOk

\* Process, from the return of cmd.Fn to the end of the line.  r: what Fn
\* left and returned; cancelled: the command's context is done when the
\* select after Fn looks at it
afterFn(c, p, args, cmd, cancelled, r) ==
    LET privEnv == p.nAssign # 0
        err1 == IF cancelled /\ r.err = "" THEN "interrupted" ELSE r.err
        c2 == [r.c EXCEPT !.lastOk = lastOkAfter(cmd, err1, @),
                          !.cur.cond.result = "nil"]
        err2 == IF cmd.HideFailure THEN "" ELSE err1
        c3 == IF ~privEnv THEN c2
              ELSE IF EnvPopPanics(c2.env) THEN Panic(c2)
              ELSE [c2 EXCEPT !.env = EnvPop(c2.env)]
        c4 == IF err2 = "" \/ c3.panicked THEN c3
              ELSE setFnError(IF err2 = "interrupted" THEN popStackAll(c3) ELSE c3)
    IN  Continue(c, c4, "ran", args,
                 [weak |-> cmd.weakStatus, hide |-> cmd.HideFailure,
                  fnErr |-> r.err # "", intr |-> cancelled])

\* Process: from the push of the inline assignments to the end of the line,
\* for the command cmd found under args[1]
runCmd(c, p, args, cmd, blk, cancelled) ==
    afterFn(c, p, args, cmd, cancelled,
            Fn(pushEnv(c, p, cmd), args[1], args, blk, cancelled))

\* Process, lines 796-854: what the name of a line stands for.  A function
\* of that name comes first, then `help', then the lookup in the maps
Dispatch(funcMap, name) ==
    IF name \in DOMAIN funcMap /\ funcMap[name].def
    THEN [kind |-> "func", ok |-> TRUE, cmd |-> Cmd0, fwd |-> FALSE]
    ELSE IF name = "help"
    THEN [kind |-> "help", ok |-> TRUE, cmd |-> Cmd0, fwd |-> FALSE]
    ELSE [kind |-> "cmd", ok |-> Lookup(name).ok, cmd |-> Lookup(name).cmd,
          fwd |-> Lookup(name).fwd]

\* CmdLine.fwd: the bytes go to the writer cl.Forward, whose Write does not
\* fail; callers have seen that cl.Forward is not nil
fwd(c, line) == [c EXCEPT !.Forward.out = @ \o line]

\* Process, the name was not found: the line goes to cl.Forward as
\* rc.JoinCmd(args) and a newline, or the error is noted
forward(c, args) ==
    IF ~c.Forward.nil
    THEN fwd(c, rcJoinCmd([i \in 1..Len(args) |-> Chars(args[i])]) \o <<"\n">>)
    ELSE setFnError(c)

\* Process, from args := c.Fields on: c has the writer of the line as c.lw
ProcessFields(c, p, args, blk, cancelled) ==
        IF args = <<>>
        THEN IF p.nAssign # 0
             THEN Continue(c, IF EnvInsertPanics(c.env) THEN Panic(c)
                              ELSE [c EXCEPT !.env = EnvInsert(c.env, p.Assignments)],
                           "assign", <<>>, D0)
             ELSE Continue(c, IF ~c.Forward.nil THEN fwd(c, <<"\n">>) ELSE c,
                           "empty", <<>>, D0)
        ELSE IF Dispatch(c.funcMap, args[1]).kind = "func"
        THEN Continue(c, callFunc(c, p, args), "func", args, D0)
        ELSE IF Dispatch(c.funcMap, args[1]).kind = "help"
        THEN Continue(c, IF ~c.Forward.nil
                         THEN fwd(help(c, Tail(args)), <<"h", "e", "l", "p", "\n">>)
                         ELSE help(c, Tail(args)),
                      "help", args, D0)
        ELSE LET l == Dispatch(c.funcMap, args[1]) IN
             IF ~l.ok /\ l.fwd THEN Continue(c, forward(c, args), "notfound", args, D0)
             ELSE IF ~l.ok THEN Continue(c, setFnError(c), "notfound", args, D0)
             ELSE IF WrongNArg(l.cmd, Len(args) - 1)
             THEN Continue(c, setFnError(c), "wrongnarg", args, D0)
             ELSE runCmd(c, p, args, l.cmd, blk, cancelled)

\* Process, from line = cl.Text() on: the line is parsed, and its writer w is
\* the writer of the frame or the one a redirection gives
ProcessLine(c, blk, cancelled) ==
    LET p == ParseCmdLine(c.env, c.cur.lineReader.text) IN
    IF p.err THEN Continue(c, setFnError(c), "parseerr", <<>>, D0)
    ELSE IF p.Redir.Type = ""
    THEN ProcessFields([c EXCEPT !.lw = c.cur.w], p, p.Fields, blk, cancelled)
    ELSE IF redirect(c, p.Redir.Type, p.Redir.Filename).err # ""
    THEN Continue(c, setFnError(c), "redirerr", <<>>, D0)
    ELSE ProcessFields(redirect(c, p.Redir.Type, p.Redir.Filename).c, p, p.Fields,
                       blk, cancelled)

\* Process, when the scan found no line (and cl.Err() is nil): rewind the
\* frame, pop it, or return at the root
ScanFailed(c, expired) ==
    IF Len(c.inputStack) # 0
    THEN LET d == done(c.cur.repetition, expired) IN
         IF ~d.done
         THEN [c |-> [c EXCEPT !.cur.repetition.n = d.n,
                               !.cur.lineReader = StringReader(c.cur.rewind),
                               !.cur.g.passes = IF c.cur.g.N > 0 THEN @ + 1 ELSE @],
               returns |-> FALSE,
               ev |-> [Ev0 EXCEPT !.kind = "rewind", !.depth0 = Len(c.inputStack),
                                  !.lastOk0 = c.lastOk]]
         ELSE LET c1 == popStack(NoteReturn(c)) IN
              [c |-> c1, returns |-> FALSE,
               ev |-> [Ev0 EXCEPT !.kind = "pop", !.depth0 = Len(c.inputStack),
                                  !.lastOk0 = c.lastOk,
                                  !.N = c.cur.g.N, !.passes = c.cur.g.passes,
                                  !.ret = RetOf(c1)]]
    ELSE [c |-> c, returns |-> TRUE,
          ev |-> [Ev0 EXCEPT !.kind = "eof", !.lastOk0 = c.lastOk]]

----------------------------------------------------------------------------
(* The state machine *)

\* the lines the root scanner may deliver
RootVocab ==
    { <<>>, <<"true">>, <<"fail">>, <<"false">>, <<"nosuch">>, <<"true", "x">>,
      <<"^x">>, <<"help">>, <<"help", "nosuch">>, <<"}">>,
      <<"a=1">>, <<"a=1", "true">>, <<"a=1", ".", "f1">>, <<".", "f1">>,
      <<"fn", "f", "true">>, <<"fn", "f", "{">>, <<"f", "x">>, <<"a=1", "f", "x">>,
      <<"fn", "f", "break">>, <<"!", "f", "x">>, <<"repeat", "2", "break">>,
      <<"fn", "f", "if", "true", "return">>, <<"fn", "f", "{", "true", "$1", "}">>,
      <<"unbind", "f">>, <<"shift">>,
      <<"repeat", "2", "true">>, <<"repeat", "2", "{">>, <<"repeat", "0", "{">>,
      <<"repeat", "0s", "true">>, <<"repeat", "1s", "true">>,
      <<"if", "true", "true">>, <<"if", "fail", "true">>, <<"if", "false", "{">>,
      <<"if", "not", "true">>,
      <<"!", "true">>, <<"!", "fail">>,
      <<"break">>, <<"return">>, <<"exit">>, <<"flag", "e", "+">>, <<"sleep", "1s">> }

\* NewCmdInterp, NewEnv.  Forward: the writer cl.Forward, nil unless the caller
\* sets it, with the bytes written to it.  fs: the files that redirections
\* write.  lw: the writer w of the line that is processed.  panicked: a
\* run-time panic has ended the program.
\* History: gret (see NoteReturn), and gprompt, the prompt the caller set
NewCmdInterp(prompt) ==
    [cur |-> Entry(RootReader(MaxRootLines)),
     inputStack |-> <<>>,
     env |-> <<GlobalFrame>>,
     lastOk |-> TRUE,
     exitFlag |-> FALSE,
     flags |-> [e |-> FALSE, x |-> FALSE],
     funcMap |-> [n \in FuncNames |-> [def |-> FALSE, body |-> <<>>]],
     Prompt |-> prompt,
     savedPrompt |-> "",
     Forward |-> [nil |-> TRUE, out |-> <<>>],
     redirFileMap |-> [n \in RedirNames |-> NoFile],
     fs |-> [n \in RedirNames |-> <<>>],
     lw |-> "",
     panicked |-> FALSE,
     gret |-> [on |-> FALSE, args |-> <<>>],
     gprompt |-> prompt]

Prompts == {"", "% "}

Init ==
    /\ cl \in {NewCmdInterp(p) : p \in Prompts}
    /\ pc = "top"
    /\ ready = "idle"
    /\ ictx = "nil"
    /\ ret = "none"
    /\ nIntr = 0
    /\ ev = Ev0

\* Process, the head of the for loop: leave it when exitFlag is up, else
\* start the goroutine that scans and make the context if there is none
LoopTop ==
    /\ pc = "top"
    /\ IF cl.exitFlag
       THEN /\ pc' = "done"
            /\ ret' = IF cl.flags.e /\ ~cl.lastOk THEN "ErrLastCmdFailed" ELSE "nil"
            /\ cl' = cleanup(cl)
            /\ UNCHANGED <<ready, ictx>>
       ELSE /\ pc' = "sel"
            /\ ready' = "pending"
            /\ ictx' = IF ictx = "nil" THEN "live" ELSE ictx
            /\ UNCHANGED <<cl, ret>>
    /\ UNCHANGED <<nIntr, ev>>

\* the goroutine `ready <- cl.Scan()': it scans the reader that is current
\* when it runs; the root scanner delivers a line of vocab
ScanFrom(vocab) ==
    /\ pc = "sel"
    /\ ready = "pending"
    /\ LET rd == cl.cur.lineReader IN
       IF rd.root
       THEN \/ /\ rd.left > 0
               /\ \E l \in vocab :
                    cl' = [cl EXCEPT !.cur.lineReader.text = l,
                                     !.cur.lineReader.left = @ - 1]
               /\ ready' = "true"
            \/ /\ cl' = [cl EXCEPT !.cur.lineReader.text = <<>>,
                                   !.cur.lineReader.left = 0]
               /\ ready' = "false"
       ELSE IF rd.lines # <<>>
       THEN /\ cl' = [cl EXCEPT !.cur.lineReader.text = Head(rd.lines),
                                !.cur.lineReader.lines = Tail(rd.lines)]
            /\ ready' = "true"
       ELSE /\ cl' = [cl EXCEPT !.cur.lineReader.text = <<>>]
            /\ ready' = "false"
    /\ UNCHANGED <<pc, ictx, ret, nIntr, ev>>

ScanGo == ScanFrom(RootVocab)

\* CmdLine.Interrupt: the goroutine that waits on cIntr cancels the context
Interrupt ==
    /\ pc \in {"top", "sel"}
    /\ ictx = "live"
    /\ nIntr < MaxIntr
    /\ ictx' = "cancelled"
    /\ nIntr' = nIntr + 1
    /\ UNCHANGED <<cl, pc, ready, ret, ev>>

\* Process, the selects: the context is done.  The record of the step keeps
\* in `what' how far the scan goroutine was: "pending" when it had not
\* scanned yet, else the result it holds for the channel; and in `name' the
\* kind of the frame that was current
SelIntr ==
    /\ pc = "sel"
    /\ ictx = "cancelled"
    /\ IF Len(cl.inputStack) = 0
       THEN /\ pc' = "done"
            /\ ret' = "ErrInterrupt"
            /\ ictx' = "nil"
            /\ cl' = cleanup(cl)
       ELSE /\ cl' = popStackAll(cl)
            /\ ictx' = "live"
            /\ UNCHANGED <<pc, ret>>
    /\ ev' = [Ev0 EXCEPT !.kind = "intr", !.what = ready, !.name = cl.cur.g.kind,
                         !.depth0 = Len(cl.inputStack), !.lastOk0 = cl.lastOk]
    /\ UNCHANGED <<ready, nIntr>>

\* what a step leaves: the loop goes on, Process has returned, or a panic;
\* the deferred cleanup runs when Process is left
After(c, returns) ==
    /\ cl' = IF c.panicked \/ returns THEN cleanup(c) ELSE c
    /\ pc' = IF c.panicked THEN "panic" ELSE IF returns THEN "done" ELSE "top"
    /\ ret' = IF returns /\ ~c.panicked
              THEN (IF ~c.lastOk THEN "ErrLastCmdFailed" ELSE "nil")
              ELSE ret

\* the step that r, the outcome of ScanFailed, makes
ScanFailedStep(r) ==
    /\ After(r.c, r.returns)
    /\ ev' = r.ev

\* the step that r, the outcome of ProcessLine, makes; a command that saw
\* the context done leaves none behind
LineStep(r) ==
    /\ Len(r.c.inputStack) <= MaxDepth
    /\ After(r.c, FALSE)
    /\ ev' = r.ev
    /\ ictx' = IF r.intr THEN "nil" ELSE ictx

\* Process, the second select: the scan goroutine delivers false
SelScanFailed ==
    /\ pc = "sel"
    /\ ready = "false"
    /\ \E expired \in BOOLEAN :
         ScanFailedStep(ScanFailed([cl EXCEPT !.gret.on = FALSE], expired))
    /\ ready' = "idle"
    /\ UNCHANGED <<ictx, nIntr>>

\* Process, the second select: the scan goroutine delivers true, and the line
\* is processed.  blk: the block the root scanner holds if the line reads
\* one; intr: an interrupt is delivered while the command runs
SelLine ==
    /\ pc = "sel"
    /\ ready = "true"
    /\ \E blk \in 0..Len(RootBlocks), intr \in BOOLEAN :
         /\ BlockChoiceOk(cl, blk)
         /\ intr => ictx = "live" /\ nIntr < MaxIntr
         /\ LineStep(ProcessLine([cl EXCEPT !.gret.on = FALSE], blk,
                                  intr \/ ictx = "cancelled"))
         /\ nIntr' = IF intr THEN nIntr + 1 ELSE nIntr
    /\ ready' = "idle"

Next == LoopTop \/ ScanGo \/ Interrupt \/ SelIntr \/ SelScanFailed \/ SelLine

Spec == Init /\ [][Next]_vars

----------------------------------------------------------------------------
(* The argument count check of Process on its own: a descriptor and a number
   of arguments are chosen, and the check accepts or refuses them *)

MaxNames == 2
MaxNArg == 4

\* the lists a descriptor may have as Arg or Opt
NameLists == UNION {[1..m -> {"ARG", "..."}] : m \in 0..MaxNames}

\* a command found by the lookup, about to be checked against n arguments
InitArity ==
    /\ cl \in {NewCmdInterp(p) : p \in Prompts}
    /\ pc = "arity"
    /\ ready = "idle"
    /\ ictx = "nil"
    /\ ret = "none"
    /\ nIntr = 0
    /\ ev \in {[kind |-> "arity", what |-> "",
                cmd |-> [Cmd0 EXCEPT !.Arg = a, !.Opt = o], n |-> n] :
                   a \in NameLists, o \in NameLists, n \in 0..MaxNArg}

\* Process, the argument count check: the command is refused through
\* setFnError, or goes on to be run
ArityStep ==
    /\ pc = "arity"
    /\ pc' = "checked"
    /\ IF WrongNArg(ev.cmd, ev.n)
       THEN cl' = setFnError(cl) /\ ev' = [ev EXCEPT !.what = "wrongnarg"]
       ELSE cl' = cl /\ ev' = [ev EXCEPT !.what = "ran"]
    /\ UNCHANGED <<ready, ictx, ret, nIntr>>

SpecArity == InitArity /\ [][ArityStep]_vars

----------------------------------------------------------------------------
(* The resolution of command names on its own: functions are defined and
   unbound, and names are resolved as Process resolves the name of a line *)

\* the names that are resolved, and those that functions are defined with
LookupNames ==
    {"true", "fail", "help", "grp", "echo", "cat", "sub", "nosuch",
     "grp.sub", "grp.echo", "grp.cat", "grp.in", "grp.in.leaf", "in.leaf",
     "true.sub", "echo.sub"}

LookupFuncNames == {"help", "true", "echo", "grp.sub", "nosuch"}

\* history: the last step, and the names unbound so far
InitLookup ==
    /\ cl \in {[NewCmdInterp(p) EXCEPT
                   !.funcMap = [n \in LookupFuncNames |-> [def |-> FALSE, body |-> <<>>]]] :
               p \in Prompts}
    /\ pc = "lookup"
    /\ ready = "idle"
    /\ ictx = "nil"
    /\ ret = "none"
    /\ nIntr = 0
    /\ ev = [kind |-> "init", name |-> "", res |-> Dispatch(<<>>, "nosuch"), unbound |-> {}]

\* a line `fn NAME true'
DefineFn ==
    /\ pc = "lookup"
    /\ \E n \in LookupFuncNames :
         /\ cl' = fnFn(cl, <<"fn", n, "true">>, 0).c
         /\ ev' = [ev EXCEPT !.kind = "fn", !.name = n]
    /\ UNCHANGED <<pc, ready, ictx, ret, nIntr>>

\* a line `unbind NAME', for a function that is defined
UnbindFn ==
    /\ pc = "lookup"
    /\ \E n \in LookupFuncNames :
         /\ fnUnbind(cl, <<"unbind", n>>).err = ""
         /\ cl' = fnUnbind(cl, <<"unbind", n>>).c
         /\ ev' = [ev EXCEPT !.kind = "unbind", !.name = n, !.unbound = @ \cup {n}]
    /\ UNCHANGED <<pc, ready, ictx, ret, nIntr>>

\* a line whose first field is NAME: what Process takes it for
ResolveName ==
    /\ pc = "lookup"
    /\ \E n \in LookupNames :
         ev' = [ev EXCEPT !.kind = "resolve", !.name = n, !.res = Dispatch(cl.funcMap, n)]
    /\ UNCHANGED <<cl, pc, ready, ictx, ret, nIntr>>

SpecLookup == InitLookup /\ [][DefineFn \/ UnbindFn \/ ResolveName]_vars

----------------------------------------------------------------------------
(* The interpreter on lines that are forwarded, that the tokenizer refuses or
   that redirect the output, with or without a writer cl.Forward *)

\* the lines the root scanner may deliver
IOVocab ==
    { <<>>, <<"nosuch">>, <<"a=1", "nosuch">>, <<"nosuch", "$1">>, <<"grp.in">>,
      <<"help">>, <<"fail">>, <<"^x">>, <<"true", "$##">>, <<"exit">>,
      <<"flag", "e", "+">>, <<"nosuch", ">", "o1">>,
      <<"echo", "x", ">", "o1">>, <<"echo", "y", ">", "o1">>,
      <<"echo", "y", ">>", "o1">>, <<"repeat", "2", "echo", "x", ">>", "o1">>,
      <<"echo", "x", ">", "bad">>, <<"echo", "x", "<", "o1">>,
      <<".", "f2">>, <<"^">>, <<"echo", "$##", "x">>,
      <<"repeat", "2", "return">> }

InitIO ==
    /\ cl \in {[NewCmdInterp("") EXCEPT !.Forward.nil = nil] : nil \in BOOLEAN}
    /\ pc = "top"
    /\ ready = "idle"
    /\ ictx = "nil"
    /\ ret = "none"
    /\ nIntr = 0
    /\ ev = Ev0

\* Process, the second select: the scan goroutine delivers false, and
\* cl.Err() is an error of the reader: Process returns it
SelScanError ==
    /\ pc = "sel"
    /\ ready = "false"
    /\ pc' = "done"
    /\ ret' = "scanerr"
    /\ cl' = cleanup(cl)
    /\ ev' = [Ev0 EXCEPT !.kind = "scanerr", !.depth0 = Len(cl.inputStack),
                         !.lastOk0 = cl.lastOk]
    /\ ready' = "idle"
    /\ UNCHANGED <<ictx, nIntr>>

SpecIO ==
    InitIO /\ [][LoopTop \/ ScanFrom(IOVocab) \/ Interrupt \/ SelIntr \/ SelScanFailed
                 \/ SelScanError \/ SelLine]_vars

----------------------------------------------------------------------------
(* The environment stack on its own: an EnvStack, empty at first, on which
   Push, Pop, Set, Insert and Get are called with maps and values of a small
   set *)

MaxEnvDepth == 3

\* the maps that are pushed and inserted: they bind "a", "*", both or
\* neither, to nil or to a list
EnvFrames ==
    {[EmptyFrame EXCEPT !["a"] = v, !["*"] = w] :
        v \in {Unbound, NilList, List(<<"x">>)}, w \in {Unbound, NilList, List(<<"x">>)}}

\* history: the last call (op, its name argument, the stack before it, the
\* result of a Get), and for a Pop that follows a Push the stack before that
\* Push
InitEnv ==
    /\ cl = [NewCmdInterp("") EXCEPT !.env = <<>>]
    /\ pc = "env"
    /\ ready = "idle"
    /\ ictx = "nil"
    /\ ret = "none"
    /\ nIntr = 0
    /\ ev = [op |-> "init", name |-> "", before |-> <<>>, res |-> NilList,
             afterPush |-> FALSE, restored |-> <<>>]

\* the record of a call of op on the stack cl.env
EnvCall(op, name, res) ==
    [op |-> op, name |-> name, before |-> cl.env, res |-> res,
     afterPush |-> op = "pop" /\ ev.op = "push",
     restored |-> IF op = "pop" /\ ev.op = "push" THEN ev.before ELSE <<>>]

GetStep ==
    /\ pc = "env"
    /\ \E name \in {"a", "*"} : ev' = EnvCall("get", name, EnvGet(cl.env, name))
    /\ UNCHANGED <<cl, pc, ready, ictx, ret, nIntr>>

SetStep ==
    /\ pc = "env"
    /\ \E name \in {"a", "*"}, value \in {NilList, List(<<"y">>)} :
         /\ cl' = [cl EXCEPT !.env = EnvSet(cl.env, name, value)]
         /\ ev' = EnvCall("set", name, value)
    /\ UNCHANGED <<pc, ready, ictx, ret, nIntr>>

\* Insert and Pop panic on the empty stack
InsertStep ==
    /\ pc = "env"
    /\ \E m \in EnvFrames :
         /\ cl' = IF EnvInsertPanics(cl.env) THEN cl
                  ELSE [cl EXCEPT !.env = EnvInsert(cl.env, m)]
         /\ ev' = EnvCall("insert", "", NilList)
    /\ pc' = IF EnvInsertPanics(cl.env) THEN "panic" ELSE pc
    /\ UNCHANGED <<ready, ictx, ret, nIntr>>

PushStep ==
    /\ pc = "env"
    /\ Len(cl.env) < MaxEnvDepth
    /\ \E m \in EnvFrames :
         /\ cl' = [cl EXCEPT !.env = EnvPush(cl.env, m)]
         /\ ev' = EnvCall("push", "", NilList)
    /\ UNCHANGED <<pc, ready, ictx, ret, nIntr>>

PopStep ==
    /\ pc = "env"
    /\ cl' = IF EnvPopPanics(cl.env) THEN cl ELSE [cl EXCEPT !.env = EnvPop(cl.env)]
    /\ ev' = EnvCall("pop", "", NilList)
    /\ pc' = IF EnvPopPanics(cl.env) THEN "panic" ELSE pc
    /\ UNCHANGED <<ready, ictx, ret, nIntr>>

SpecEnv == InitEnv /\ [][GetStep \/ SetStep \/ InsertStep \/ PushStep \/ PopStep]_vars

----------------------------------------------------------------------------
(* The quoter and the tokenizer on their own: a list of strings is joined
   with Join or JoinCmd and the text is read back with Tokenize or
   ParseCmdLine; its first string is quoted with Quote and QuoteCmd *)

MaxStrLen == 3
MaxList == 2

\* the strings: those of up to MaxStrLen characters that are a letter, white
\* space, the quote, the assignment sign or a special character of rc, and
\* strings of quoteTests that are longer
QuoteStrings ==
    UNION {[1..n -> {"a", " ", "'", "=", "$"}] : n \in 0..MaxStrLen}
    \cup { <<"a", "=", "b", "'", "c", "=", "d">>, <<"=", "=", "=">>,
           <<"a", "=", "b", " ", "c">>, <<"'", "=", "'">> }

\* history: the list, the call made on it, the text the call gave and what
\* was read back from the text
InitQuote ==
    /\ cl = NewCmdInterp("")
    /\ pc = "quote"
    /\ ready = "idle"
    /\ ictx = "nil"
    /\ ret = "none"
    /\ nIntr = 0
    /\ ev \in {[op |-> "init", list |-> L, text |-> <<>>, whole |-> <<>>,
                err |-> "", Fields |-> <<>>, Assignments |-> <<>>,
                Redir |-> [Type |-> <<>>, Filename |-> <<>>]] :
                   L \in UNION {[1..n -> QuoteStrings] : n \in 0..MaxList}}

\* Tokenize(Join(list)), with the Join of ini.go, which quotes every element,
\* or the Join of quote.go, which leaves the first as it is
JoinStep ==
    /\ pc = "quote"
    /\ pc' = "quoted"
    /\ \E text \in {rcJoin(ev.list), rcJoinHead(ev.list)} :
         ev' = [ev EXCEPT !.op = "join", !.text = text, !.Fields = Tokenize(text)]
    /\ UNCHANGED <<cl, ready, ictx, ret, nIntr>>

\* ParseCmdLine(JoinCmd(list)) of a Tokenizer without Getenv
JoinCmdStep ==
    /\ pc = "quote"
    /\ pc' = "quoted"
    /\ ev' = [op |-> "joincmd", list |-> ev.list, text |-> rcJoinCmd(ev.list),
              whole |-> <<>>] @@
             rcParseCmdLine([nil |-> TRUE, env |-> <<>>], rcJoinCmd(ev.list))
    /\ UNCHANGED <<cl, ready, ictx, ret, nIntr>>

\* QuoteCmd and Quote of the first string of the list
QuoteStep ==
    /\ pc = "quote"
    /\ ev.list # <<>>
    /\ pc' = "quoted"
    /\ ev' = [ev EXCEPT !.op = "quote", !.text = QuoteCmd(ev.list[1]),
                        !.whole = Quote(ev.list[1])]
    /\ UNCHANGED <<cl, ready, ictx, ret, nIntr>>

SpecQuote == InitQuote /\ [][JoinStep \/ JoinCmdStep \/ QuoteStep]_vars

----------------------------------------------------------------------------
(* ParseCmdLine on its own: a line is parsed by a Tokenizer without Getenv,
   or with a Getenv that reads one of a few maps *)

MaxLineLen == 5

\* the lines: those of up to MaxLineLen characters of words and assignments,
\* of variable references, of redirections, and of quoting, concatenation and
\* references next to text; and lines of tokenizeCmdTests
ParseLines ==
    UNION {[1..n -> {"a", "b", "=", " "}] \cup [1..n -> {"$", "#", "a", "0", "1", "2", "(", ")"}]
           \cup [1..n -> {"a", ">", "<", " "}] : n \in 0..MaxLineLen}
    \cup UNION {[1..n -> {"a", "$", "^", "'", "=", " "}] : n \in 0..MaxLineLen - 1}
    \cup {<<"$", "f", "o", "o", "=", "b", "a", "'", "z", "'", " ", "b", "$", "a", "r", "=", "$", "b", "a", "^", "o", " ", "$", "b", "a", "r">>,
          <<"a", "=", "b", "$", "f", "o", "o", "=", "c", " ", "f", "o", "o", " ", "d", "=", "e">>,
          <<"a", "=", "b", "=", "c", " ", "f", "o", "o", " ", "d", "=", "e", " ", "=", "f">>,
          <<"a", "^", "$", "a", "r", "g", "s">>,
          <<"x", "$", "a", "r", "g", "s">>,
          <<"$", "a", "r", "g", "s">>,
          <<"$", "2">>,
          <<"$", "a", "r", "g", "s", "(", "2", ")">>,
          <<"$", "#", "a", "r", "g", "s">>,
          <<"$", "a", "(", "0", "0", ")">>}

\* history: the line, the Tokenizer's Getenv (nil, or reading env), and what
\* ParseCmdLine returned
InitParse ==
    /\ cl = NewCmdInterp("")
    /\ pc = "parse"
    /\ ready = "idle"
    /\ ictx = "nil"
    /\ ret = "none"
    /\ nIntr = 0
    /\ ev \in {[op |-> "init", s |-> s, getenv |-> g, res |-> <<>>] :
                 s \in ParseLines,
                 g \in {[nil |-> TRUE, env |-> <<>>],
                        [nil |-> FALSE, env |-> <<>>],
                        [nil |-> FALSE,
                         env |-> (<<"a">> :> << <<"b">> >>) @@ (<<"*">> :> << <<"x">> >>)],
                        [nil |-> FALSE,
                         env |-> (<<"a">> :> << <<"x">>, <<"y">> >>)
                                 @@ (<<"*">> :> << <<"x">>, <<"y">>, <<"z">> >>)
                                 @@ (<<"a", "r", "g", "s">> :> << <<"x">>, <<"y">> >>)
                                 @@ (<<"f", "o", "o">> :> << <<"b", "a", "r">> >>)
                                 @@ (<<"b", "a", "r">> :> << <<>> >>)
                                 @@ (<<"a", "r">> :> << <<"a", "z">> >>)
                                 @@ (<<"b", "a">> :> << <<"f", "o">> >>)]}}

ParseStep ==
    /\ pc = "parse"
    /\ pc' = "parsed"
    /\ ev' = [ev EXCEPT !.op = "parse", !.res = rcParseCmdLine(ev.getenv, ev.s)]
    /\ UNCHANGED <<cl, ready, ictx, ret, nIntr>>

SpecParse == InitParse /\ [][ParseStep]_vars

----------------------------------------------------------------------------
(* MultiScanner: one goroutine per underlying scanner sends its lines, and
   then one scanLine with its Err(), into the channel m.c; Scan receives *)

MaxScanners == 2
MaxScanLines == 4

\* make(chan scanLine, 8)
ChanCap == 8

\* the k-th line of scanner i, a text that is not empty
ScanText(i, k) == <<(<<"a", "b", "c">>)[i], (<<"1", "2", "3", "4", "5">>)[k]>>

\* MultiScanner(scanners...): scanner i has n[i] lines left to give and ends
\* with Err() = err[i]; m.c is empty, m.line is the zero scanLine.
\* History: sent[i], the lines that scanner i has given; ok, what the last
\* Scan returned ("none" before the first); ev, the texts that Scan
\* delivered with true
InitMulti ==
    /\ cl \in {[c |-> <<>>,
                line |-> [text |-> <<>>, err |-> "nil"],
                s |-> [i \in 1..MaxScanners |->
                         [left |-> n[i], sent |-> 0, err |-> e[i], done |-> FALSE]],
                ok |-> "none"] :
                 n \in [1..MaxScanners -> 0..MaxScanLines],
                 e \in [1..MaxScanners -> {"nil", "err"}]}
    /\ pc = "multi"
    /\ ready = "idle"
    /\ ictx = "nil"
    /\ ret = "none"
    /\ nIntr = 0
    /\ ev = <<>>

\* the goroutine of scanner i: for s.Scan() { m.c <- scanLine{text: s.Text()} }
\* and then m.c <- scanLine{err: s.Err()}; a send waits while m.c is full
ScannerStep(i) ==
    /\ pc = "multi"
    /\ ~cl.s[i].done
    /\ Len(cl.c) < ChanCap
    /\ cl' = IF cl.s[i].left > 0
             THEN [cl EXCEPT !.c = Append(@, [text |-> ScanText(i, cl.s[i].sent + 1),
                                              err |-> "nil"]),
                             !.s[i].left = @ - 1, !.s[i].sent = @ + 1]
             ELSE [cl EXCEPT !.c = Append(@, [text |-> <<>>, err |-> cl.s[i].err]),
                             !.s[i].done = TRUE]
    /\ UNCHANGED <<pc, ready, ictx, ret, nIntr, ev>>

\* multiScanner.Scan: m.line = <-m.c; ok = m.line.err == nil
MultiScan ==
    /\ pc = "multi"
    /\ cl.c # <<>>
    /\ cl' = [cl EXCEPT !.line = Head(cl.c), !.c = Tail(cl.c),
                        !.ok = IF Head(cl.c).err = "nil" THEN "true" ELSE "false"]
    /\ ev' = IF Head(cl.c).err = "nil" THEN Append(ev, Head(cl.c).text) ELSE ev
    /\ UNCHANGED <<pc, ready, ictx, ret, nIntr>>

SpecMulti == InitMulti /\ [][(\E i \in 1..MaxScanners : ScannerStep(i)) \/ MultiScan]_vars

----------------------------------------------------------------------------
(* tidata: Reader.ReadAll sends the lines of the input to the goroutine
   handleLevel of the first level, which hands lines that start with a tab to
   a goroutine of the next level; errors are sent into r.errC.  The channels
   sub and rsub have no buffer: a send and its receive are one step, taken by
   the receiver *)

MaxInputLines == 3

\* make(chan error, 4)
ErrCap == 4

\* ReadAll after go r.handleLevel(sub, rsub), with CommentPrefix, TrimPrefix
\* and StripUtf8BOM not set and a scanner that ends without an error.
\* rd: ReadAll, about to send line pos ("select"), to send input{} ("final"),
\* to receive from rsub ("rsub"), or returned ("done") with err, the number
\* of the line in the error or 0 for nil.
\* h[i]: handleLevel of level i: started (on), waiting for inCh ("recv"),
\* sending to r.errC ("errdepth", "errline"), to sub ("fwd", "req"), waiting
\* for rsub ("reqrecv"), sending to ret ("ret"); in: the input it works on;
\* n: len(list); el, sub: el, sub are not nil; report: requestChildren was
\* called for an input{}; inClosed: inCh is closed
InitTidata ==
    /\ cl \in {[input |-> input,
                rd |-> [pc |-> IF input = <<>> THEN "final" ELSE "select",
                        pos |-> 1, err |-> 0],
                errC |-> <<>>,
                errClosed |-> FALSE,
                h |-> [i \in 1..3 |->
                         [on |-> i = 1, pc |-> "recv",
                          in |-> [insert |-> FALSE, line |-> <<>>, lineNum |-> 0],
                          n |-> 0, el |-> FALSE, sub |-> FALSE, report |-> FALSE,
                          inClosed |-> FALSE]]] :
                 input \in UNION {[1..n -> {<<"k">>, <<"\t", "k">>, <<"\t", "\t", "k">>,
                                            <<" ", "k">>, <<"k", " ">>,
                                            <<"\t", " ", "k">>, <<"\t", "k", "\t">>}] :
                                   n \in 0..MaxInputLines}}
    /\ pc = "tidata"
    /\ ready = "idle"
    /\ ictx = "nil"
    /\ ret = "none"
    /\ nIntr = 0
    /\ ev = <<>>

\* ReadAll receives: in the select an error from r.errC, with which it
\* returns, or at the end the list of the first level from rsub.  The
\* deferred close(sub) closes the inCh of the first level
ReadAll ==
    /\ pc = "tidata"
    /\ \/ /\ cl.rd.pc = "select"
          /\ cl.errC # <<>>
          /\ cl' = [cl EXCEPT !.rd.err = Head(cl.errC), !.rd.pc = "done",
                              !.errC = Tail(@), !.h[1].inClosed = TRUE]
       \/ /\ cl.rd.pc = "rsub"
          /\ cl.h[1].pc = "ret"
          /\ cl' = [cl EXCEPT !.rd.pc = "done", !.h[1].inClosed = TRUE,
                              !.h[1].pc = "recv", !.h[1].n = 0, !.h[1].el = FALSE]
    /\ UNCHANGED <<pc, ready, ictx, ret, nIntr, ev>>

\* handleLevel from the creation of an element on: the checks of the first
\* and the last character, which send to r.errC, or else the append
newElem(c, i) ==
    IF /\ c.h[i].in.line # <<>>
       /\ \/ c.h[i].in.line[1] = " "
          \/ c.h[i].in.line[Len(c.h[i].in.line)] \in {" ", "\t"}
    THEN [c EXCEPT !.h[i].pc = "errline"]
    ELSE [c EXCEPT !.h[i].pc = "recv", !.h[i].n = @ + 1, !.h[i].el = TRUE]

\* handleLevel with an input in taken from inCh, up to the next channel
\* operation
handleInput(c, i, in) ==
    IF ~in.insert
    THEN IF c.h[i].el /\ c.h[i].sub
         THEN [c EXCEPT !.h[i].in = in, !.h[i].pc = "req", !.h[i].report = TRUE]
         ELSE [c EXCEPT !.h[i].in = in, !.h[i].pc = "ret"]
    ELSE IF in.line # <<>> /\ in.line[1] = "\t"
    THEN IF ~c.h[i].el THEN [c EXCEPT !.h[i].in = in, !.h[i].pc = "errdepth"]
         ELSE IF c.h[i].n > 0
         THEN [c EXCEPT !.h[i].in = in, !.h[i].pc = "fwd", !.h[i].sub = TRUE,
                        !.h[i + 1].on = TRUE]
         ELSE [c EXCEPT !.h[i].in = in]
    ELSE IF c.h[i].el /\ c.h[i].sub
    THEN [c EXCEPT !.h[i].in = in, !.h[i].pc = "req", !.h[i].report = FALSE]
    ELSE newElem([c EXCEPT !.h[i].in = in], i)

\* one step of the goroutine handleLevel of level i: it receives from inCh
\* what ReadAll (level 1) or the level above sends, or finds inCh closed; it
\* sends an error into r.errC when r.errC has room; it receives from rsub
\* the list that its sub-handler sends to ret
handleLevel(i) ==
    LET received(c) ==
            IF i = 1
            THEN IF c.rd.pc = "select"
                 THEN [c EXCEPT !.rd.pos = @ + 1,
                                !.rd.pc = IF c.rd.pos < Len(c.input) THEN "select" ELSE "final"]
                 ELSE [c EXCEPT !.rd.pc = "rsub"]
            ELSE IF c.h[i - 1].pc = "fwd" THEN [c EXCEPT !.h[i - 1].pc = "recv"]
            ELSE [c EXCEPT !.h[i - 1].pc = "reqrecv"]
        sent ==
            IF i = 1
            THEN IF cl.rd.pc = "select"
                 THEN [insert |-> TRUE, line |-> cl.input[cl.rd.pos], lineNum |-> cl.rd.pos]
                 ELSE [insert |-> FALSE, line |-> <<>>, lineNum |-> 0]
            ELSE IF cl.h[i - 1].pc = "fwd"
            THEN [insert |-> TRUE, line |-> Tail(cl.h[i - 1].in.line),
                  lineNum |-> cl.h[i - 1].in.lineNum]
            ELSE [insert |-> FALSE, line |-> <<>>, lineNum |-> 0]
        senderReady ==
            IF i = 1 THEN cl.rd.pc \in {"select", "final"}
            ELSE cl.h[i - 1].pc \in {"fwd", "req"}
    IN
    /\ pc = "tidata"
    /\ cl.h[i].on
    /\ \/ /\ cl.h[i].pc = "recv"
          /\ senderReady
          /\ cl' = handleInput(received(cl), i, sent)
       \/ /\ cl.h[i].pc = "recv"
          /\ ~senderReady
          /\ cl.h[i].inClosed
          /\ cl' = IF cl.h[i].sub
                   THEN [cl EXCEPT !.h[i].pc = "exit", !.h[i + 1].inClosed = TRUE]
                   ELSE [cl EXCEPT !.h[i].pc = "exit", !.errClosed = TRUE]
       \/ /\ cl.h[i].pc = "errdepth"
          /\ Len(cl.errC) < ErrCap
          /\ cl' = IF cl.h[i].n > 0
                   THEN [cl EXCEPT !.errC = Append(@, cl.h[i].in.lineNum),
                                   !.h[i].pc = "fwd", !.h[i].sub = TRUE,
                                   !.h[i + 1].on = TRUE]
                   ELSE [cl EXCEPT !.errC = Append(@, cl.h[i].in.lineNum),
                                   !.h[i].pc = "recv"]
       \/ /\ cl.h[i].pc = "errline"
          /\ Len(cl.errC) < ErrCap
          /\ cl' = [cl EXCEPT !.errC = Append(@, cl.h[i].in.lineNum),
                              !.h[i].pc = "recv", !.h[i].n = @ + 1, !.h[i].el = TRUE]
       \/ /\ cl.h[i].pc = "reqrecv"
          /\ cl.h[i + 1].pc = "ret"
          /\ cl' = IF cl.h[i].report
                   THEN [cl EXCEPT !.h[i + 1].pc = "recv", !.h[i + 1].n = 0,
                                   !.h[i + 1].el = FALSE, !.h[i].pc = "ret"]
                   ELSE newElem([cl EXCEPT !.h[i + 1].pc = "recv", !.h[i + 1].n = 0,
                                           !.h[i + 1].el = FALSE], i)
    /\ UNCHANGED <<pc, ready, ictx, ret, nIntr, ev>>

SpecTidata == InitTidata /\ [][ReadAll \/ \E i \in 1..3 : handleLevel(i)]_vars

----------------------------------------------------------------------------
(* Steps *)

\* the step of Process that handles a scanned line
IsLineStep == pc = "sel" /\ pc' # "sel" /\ ev'.kind = "line"

----------------------------------------------------------------------------
(* The environment stack *)

\* C1: the environment stack always holds at least the global frame, whatever
\* line is processed (inline assignments before a builtin, a user command or
\* a function; break, return, interrupt)
EnvDepthAtLeastOne == Len(cl.env) >= 1

----------------------------------------------------------------------------
(* Interrupts *)

\* C2: after an interrupt that arrives between two commands of a sourced
\* file (the stack is not empty, a read is pending), the next thing Process
\* acts on is a result scanned after the interrupt, from the root scanner:
\* it neither executes a line again nor returns on a result of the file's
\* scanner
AfterFileInterruptNextIsFresh ==
    [][(ev.kind = "intr" /\ ev.name = "file" /\ ev' # ev /\ ev'.kind # "intr")
         => ev.what = "pending"]_vars

\* the step of Process in which a select finds the context done
IsInterruptStep ==
    pc = "sel" /\ ictx = "cancelled" /\ ictx' # "cancelled" /\ ev'.kind = "intr"

\* C4: an interrupt seen while Process waits for input makes Process return
\* ErrInterrupt when the input stack is empty; otherwise every frame is
\* popped: the stack is empty, the root scanner is current, the prompt is
\* the caller's again, and Process goes on waiting
InterruptWhileWaiting ==
    [][IsInterruptStep =>
         IF Len(cl.inputStack) = 0
         THEN pc' = "done" /\ ret' = "ErrInterrupt"
         ELSE /\ Len(cl'.inputStack) = 0
              /\ cl'.cur.lineReader.root
              /\ cl'.Prompt = cl.gprompt
              /\ pc' = "sel" /\ ret' = "none"]_vars

\* C4, witness: an interrupt has unwound two or more frames and the prompt
\* is back
InterruptUnwoundFrames ==
    /\ ev.kind = "intr" /\ ev.depth0 >= 2
    /\ pc = "sel" /\ Len(cl.inputStack) = 0 /\ cl.Prompt = "% "

----------------------------------------------------------------------------
(* Frames of the input stack *)

\* the step of Process that finds the scanner of a nested frame exhausted
IsExhaustedStep ==
    /\ pc = "sel" /\ ready = "false" /\ Len(cl.inputStack) > 0
    /\ pc' # "sel" /\ ev'.kind # "intr"

\* the current frame has no repetition, or its count has run out
NoRepetitionLeft == ~cl.cur.repetition.on \/ cl.cur.repetition.n = 1

\* the current frame is gone and the frame pushed before it is current, as
\* it was left
PoppedToPrevious ==
    /\ cl'.cur = cl.inputStack[Len(cl.inputStack)]
    /\ cl'.inputStack = SubSeq(cl.inputStack, 1, Len(cl.inputStack) - 1)

\* C5: when the scanner of the current nested frame is exhausted and the
\* frame has no repetition left, the frame is popped: the frame pushed
\* immediately before it is current again, with the lines it had not read,
\* and the frames below stay in their order
ExhaustedFramePopped ==
    [][IsExhaustedStep =>
         /\ NoRepetitionLeft => ev'.kind = "pop"
         /\ ev'.kind = "pop" => PoppedToPrevious]_vars

\* C5, witness: a frame two deep has been popped and the frame below it
\* still has a line to read
PoppedWithLinesLeft ==
    /\ ev.kind = "pop" /\ ev.depth0 = 2 /\ pc = "top"
    /\ Len(cl.inputStack) = 1 /\ cl.cur.lineReader.lines # <<>>

----------------------------------------------------------------------------
(* repeat *)

\* C6: a frame pushed by `repeat N CMD', N >= 1, that comes to its end has
\* started CMD exactly N times; `repeat 0 CMD' and `repeat 0s CMD' push no
\* frame and no line of CMD is executed: the line after a zero repeat that
\* opens a block is not run as a command
RepeatRunsCmdNTimes ==
    /\ ev.kind = "pop" /\ ev.N >= 1 => ev.passes = ev.N
    /\ ev.kind = "line" /\ ev.what = "ran" /\ IsZeroRepeat(ev.line)
          => Len(cl.inputStack) = ev.depth0
    /\ ~(ev.kind = "line" /\ ev.prev = "rep0blk" /\ ev.what = "ran")

----------------------------------------------------------------------------
(* if and if not *)

\* the line just processed is an `if not' that ran, without an interrupt,
\* right after an `if' of the same frame whose condition has been tested
IsIfNotAfterIf ==
    /\ ev.kind = "line" /\ ev.what = "ran" /\ ev.ifnot /\ ~ev.intr
    /\ ev.prev = "if" /\ ev.prevTested

\* the line just processed has pushed a frame that is now current
PushedBody == Len(cl.inputStack) = ev.depth0 + 1 /\ cl.cur.g.kind = "body"

\* C7: for `if COND CMD' followed immediately by `if not CMD2' in the same
\* frame, CMD has been run only if COND left lastOk true, and CMD2 is pushed
\* to run next exactly if COND left lastOk false
IfElseRunsExactlyOne ==
    IsIfNotAfterIf =>
        /\ ev.prevRan => ev.prevOk
        /\ PushedBody <=> ~ev.prevOk

\* C8: an `if not' whose frame processed something other than an `if'
\* immediately before it (a command, a function call, help, an assignment,
\* a failed lookup or arity check, another `if not', or nothing yet) fails
\* and pushes nothing
IfNotNeedsIfBefore ==
    ev.kind = "line" /\ ev.what = "ran" /\ ev.ifnot /\ ev.prev # "if"
        => ev.fnErr /\ Len(cl.inputStack) <= ev.depth0

----------------------------------------------------------------------------
(* ! *)

\* the step of Process that runs the marker `_!', without an interrupt
IsNotEndStep ==
    IsLineStep /\ ev'.what = "ran" /\ ev'.name = "_!" /\ ~ev'.intr

----------------------------------------------------------------------------
(* Functions *)

\* C10: when a function that was called without inline assignments has
\* returned in the step just taken, by the end of its body or by `return',
\* $* is the list it was immediately before the call (the empty list if it
\* was unset)
FunctionRestoresArgs == ev.ret # "bad"

----------------------------------------------------------------------------
(* break and return *)

\* the frames of the input, the root first and the current one last
Frames(c) == Append(c.inputStack, c.cur)

\* the index in Frames(c) of the innermost frame that is a loop or a function
\* frame; 0 when there is none
InnermostLoopOrFunc(c) ==
    LET fs == Frames(c)
        S == {i \in 1..Len(fs) : isLoop(fs[i]) \/ fs[i].isFunc}
    IN  IF S = {} THEN 0 ELSE CHOOSE i \in S : \A j \in S : j <= i

\* the frames 1..n of c2 are the frames 1..n of c1, each where it was
KeepsFrames(c1, c2, n) ==
    /\ Len(Frames(c2)) >= n
    /\ \A i \in 1..n : Frames(c2)[i].lineReader = Frames(c1)[i].lineReader

\* the step that runs `break', with no interrupt
IsBreakStep ==
    IsLineStep /\ ev'.what = "ran" /\ ev'.name = "break" /\ ~ev'.intr /\ ~cl'.panicked

\* C11: `break' pops the frames up to and including the innermost enclosing
\* loop frame, and the frame below goes on after its `repeat' line; with no
\* loop around it it fails; and in a function body that is not inside a loop
\* of the function it pops no frame below the function's frame
BreakUnwindsToLoop ==
    [][IsBreakStep =>
        IF InnermostLoopOrFunc(cl) = 0 THEN ev'.fnErr
        ELSE IF Frames(cl)[InnermostLoopOrFunc(cl)].isFunc
        THEN ev'.fnErr /\ KeepsFrames(cl, cl', InnermostLoopOrFunc(cl) - 1)
        ELSE /\ ~ev'.fnErr
             /\ Len(Frames(cl')) = InnermostLoopOrFunc(cl) - 1
             /\ KeepsFrames(cl, cl', InnermostLoopOrFunc(cl) - 1)]_vars

\* the index in Frames(c) of the innermost function frame; 0 when there is none
InnermostFunc(c) ==
    LET fs == Frames(c)
        S == {i \in 1..Len(fs) : fs[i].isFunc}
    IN  IF S = {} THEN 0 ELSE CHOOSE i \in S : \A j \in S : j <= i

\* the step that runs `return', with no interrupt
IsReturnStep ==
    IsLineStep /\ ev'.what = "ran" /\ ev'.name = "return" /\ ~ev'.intr /\ ~cl'.panicked

WeakStatusKeepsLastOk ==
    [][IsLineStep /\ ev'.what = "ran" /\ ev'.weak /\ ~ev'.intr /\ ~cl'.panicked
       => cl'.lastOk = cl.lastOk]_vars

----------------------------------------------------------------------------
(* flag e *)

\* the line of the step e failed: it did not tokenize, its command was not
\* found or got a wrong number of arguments, or the command's Fn returned an
\* error
LineFailed(e) ==
    e.what \in {"parseerr", "notfound", "wrongnarg"} \/ (e.what = "ran" /\ e.fnErr)

\* C14: with flag e set, a line that fails in a frame that is not compound
\* raises exitFlag (whatever the command, `false' included), and once
\* exitFlag is up no further line is processed
FlagEFailureExits ==
    [][/\ IsLineStep /\ cl.flags.e /\ ~cl.cur.isCompound /\ LineFailed(ev') /\ ~cl'.panicked
          => cl'.exitFlag
       /\ cl.exitFlag => ~IsLineStep]_vars

\* the line that frame i of c runs or waits for belongs to the condition of
\* an `if' or to the operand of a `!': the frame was pushed by `if' or `!'
\* and has not reached its closing `_testcond' or `_!'
InOperand(c, i) ==
    LET fs == Frames(c) IN
    /\ fs[i].g.kind \in {"cond", "not"}
    /\ IF i = Len(fs)
       THEN fs[i].lineReader.text \notin {<<"_testcond">>, <<"_!">>}
       ELSE fs[i].lineReader.lines # <<>>

\* the line just scanned is nested under a compound builtin
UnderCompound(c) == \E i \in 1..Len(Frames(c)) : InOperand(c, i)

\* C15: with flag e set, a command that fails while the condition of an `if'
\* is evaluated (directly, under `!', or in a function the condition calls)
\* or as the operand of a top-level `!' never raises exitFlag
NestedFailureDoesNotExit ==
    [][IsLineStep /\ cl.flags.e /\ UnderCompound(cl) /\ LineFailed(ev') /\ ~ev'.intr
       => ~cl'.exitFlag]_vars

----------------------------------------------------------------------------
(* What Process returns *)

\* C16: Process returns ErrLastCmdFailed only when flag e is set and lastOk is
\* false at the end of the session; when the root input is exhausted with
\* flag e unset it returns nil, even if the last command failed; and an
\* interrupt at top level returns ErrInterrupt
ReturnValueOfProcess ==
    /\ ret = "ErrLastCmdFailed" => cl.flags.e /\ ~cl.lastOk
    /\ pc = "done" /\ ev.kind = "eof" /\ ~cl.flags.e => ret = "nil"
    /\ pc = "done" /\ ev.kind = "intr" => ret = "ErrInterrupt"

----------------------------------------------------------------------------
(* Function definitions *)

\* C17: a brace block written entirely on the `fn' line is stored as the
\* body of the function, with its `$1' left for the calls to bind, and no
\* line that follows is consumed
FnBlockOnOneLine ==
    [][IsLineStep /\ ev'.line = <<"fn", "f", "{", "true", "$1", "}">> /\ ~ev'.intr
       => /\ ev'.what = "ran" /\ ~ev'.fnErr
          /\ cl'.funcMap["f"] = [def |-> TRUE, body |-> << <<"true", "$1">> >>]
          /\ cl'.cur.lineReader = cl.cur.lineReader]_vars

----------------------------------------------------------------------------
(* The prompt *)

\* C18: while the input stack is not empty the prompt is blank and the saved
\* prompt is the one the stack was first pushed with (a nested push does not
\* overwrite it); whenever the stack is empty the prompt is the one the
\* session was given
PromptBlankWhileNested ==
    IF Len(cl.inputStack) > 0
    THEN cl.Prompt = "" /\ cl.savedPrompt = cl.gprompt
    ELSE cl.Prompt = cl.gprompt

\* the stack is empty again after it held two frames or more, and the prompt,
\* which is not blank, is back
PromptBackAfterNesting ==
    /\ Len(cl.inputStack) = 0 /\ ev.depth0 >= 2
    /\ cl.gprompt # "" /\ cl.Prompt = cl.gprompt

----------------------------------------------------------------------------
(* Lines of assignments only *)

\* the step that handles a line made of assignments only
IsAssignStep == IsLineStep /\ ev'.what = "assign"

\* the environment e2 is e1 with a bound to 1 in its topmost frame
BoundInTopFrame(e1, e2) ==
    /\ Len(e1) >= 1 /\ Len(e2) = Len(e1)
    /\ \A i \in 1..(Len(e1) - 1) : e2[i] = e1[i]
    /\ e2[Len(e1)] = [e1[Len(e1)] EXCEPT !["a"] = List(<<"1">>)]

\* C19: a line of assignments only writes its bindings into the topmost
\* frame of the environment, invokes no command, pushes no input frame and
\* no environment frame, and leaves lastOk as it was
AssignmentLineBindsInTopFrame ==
    [][IsAssignStep =>
        /\ ~cl'.panicked
        /\ BoundInTopFrame(cl.env, cl'.env)
        /\ cl'.inputStack = cl.inputStack
        /\ cl'.cur.lineReader = cl.cur.lineReader
        /\ cl'.lastOk = cl.lastOk /\ cl'.exitFlag = cl.exitFlag
        /\ cl'.funcMap = cl.funcMap /\ cl'.flags = cl.flags]_vars

----------------------------------------------------------------------------
(* The number of arguments *)

\* the rule for a descriptor with a required and o optional names: n
\* arguments are accepted
ArityAccepts(cmd, n) ==
    LET a == Len(cmd.Arg)
        o == Len(cmd.Opt)
    IN  IF a > 0 /\ cmd.Arg[a] = "..." THEN n >= a - 1
        ELSE IF o >= 1 /\ cmd.Opt[o] = "..." THEN n >= a
        ELSE a <= n /\ n <= a + o

\* C20: a command is run iff its number of arguments n is at least a-1 when
\* Arg ends with "...", else at least a when Opt (of any size from 1 on) ends
\* with "...", else between a and a+o; otherwise it is refused with lastOk
\* false
ArityRule ==
    pc = "checked" =>
        /\ ev.what = "ran" <=> ArityAccepts(ev.cmd, ev.n)
        /\ ev.what = "wrongnarg" => ~cl.lastOk

----------------------------------------------------------------------------
(* The resolution of command names *)

\* the step resolved a name for which no function is defined
ResolvedUnshadowed ==
    /\ ev.kind = "resolve"
    /\ ~(ev.name \in DOMAIN cl.funcMap /\ cl.funcMap[ev.name].def)

\* the entry that the dotted names of the model have in the maps of
\* sub-commands of the user map, where builtins are not searched
SubMapEntry(name) ==
    CASE name = "grp.sub" -> [ok |-> TRUE, cmd |-> GrpMap["sub"]]
      [] name = "grp.echo" -> [ok |-> TRUE, cmd |-> GrpMap["echo"]]
      [] name = "grp.in.leaf" -> [ok |-> TRUE, cmd |-> InMap["leaf"]]
      [] OTHER -> [ok |-> FALSE, cmd |-> Cmd0]

\* a command found stands for itself, or for the entry "" of its map
Callable(cmd) ==
    IF cmd.Map.nil THEN [ok |-> TRUE, cmd |-> cmd]
    ELSE [ok |-> TRUE, cmd |-> cmd.Map.m[""]]

\* the order of the user map, the builtins and the sub-maps for a name that
\* is in the set `reserved' or not
MapOrder(name, reserved) ==
    IF name \in DOMAIN cmdMap \ reserved THEN Callable(cmdMap[name])
    ELSE IF name \in BuiltinCmds THEN [ok |-> TRUE, cmd |-> Builtin(name)]
    ELSE SubMapEntry(name)

\* C21, as stated: a function of the name comes first; without one, the name
\* is resolved in the user map, then in the builtins, then through the
\* sub-maps without the builtins, whether or not the function was unbound
\* before
ResolutionOrder ==
    /\ ev.kind = "resolve" /\ ~ResolvedUnshadowed => ev.res.kind = "func"
    /\ ResolvedUnshadowed =>
          /\ ev.res.kind = "cmd"
          /\ ev.res.ok = MapOrder(ev.name, {}).ok
          /\ ev.res.ok => ev.res.cmd = MapOrder(ev.name, {}).cmd

\* C21, amended: as above, but the name `help' without a function of that
\* name is the interpreter's help, also when the user map has a command of
\* that name
ResolutionOrderWithHelp ==
    /\ ev.kind = "resolve" /\ ~ResolvedUnshadowed => ev.res.kind = "func"
    /\ ResolvedUnshadowed /\ ev.name = "help" => ev.res.kind = "help"
    /\ ResolvedUnshadowed /\ ev.name # "help" =>
          /\ ev.res.kind = "cmd"
          /\ ev.res.ok = MapOrder(ev.name, {"help"}).ok
          /\ ev.res.ok => ev.res.cmd = MapOrder(ev.name, {"help"}).cmd

\* a name that a function shadowed until it was unbound is resolved to the
\* builtin of that name again
ResolvedAfterUnbind ==
    /\ ResolvedUnshadowed /\ ev.name = "echo" /\ "echo" \in ev.unbound
    /\ ev.res.kind = "cmd" /\ ev.res.ok /\ ev.res.cmd = Builtin("echo")

----------------------------------------------------------------------------
(* Lines that are forwarded *)

\* the step handles a line whose name is not resolved while cl.Forward is set
IsForwardStep == IsLineStep /\ ev'.what = "notfound" /\ ~cl.Forward.nil

\* C22: when the name of a line is not resolved and a forward writer is set,
\* the writer gets the text of the line as it was read and a newline, and no
\* error is noted
ForwardsLineVerbatim ==
    [][IsForwardStep =>
         /\ cl'.Forward.out = cl.Forward.out \o LineText(ev'.line) \o <<"\n">>
         /\ cl'.lastOk = cl.lastOk]_vars

----------------------------------------------------------------------------
(* The files of redirections *)

\* C23: in a Process session a redirection file name is opened at most once,
\* however many lines redirect to it with > or >>, and a file that was
\* opened is closed exactly when Process returns, on every return path: no
\* Close while Process runs, one Close once it has returned
FilesOpenedOnceClosedOnReturn ==
    \A n \in RedirNames :
        /\ cl.redirFileMap[n].opens <= 1
        /\ cl.redirFileMap[n].cached <=> cl.redirFileMap[n].opens = 1
        /\ cl.redirFileMap[n].closes =
               IF pc \in {"done", "panic"} /\ cl.redirFileMap[n].cached THEN 1 ELSE 0

\* Process has returned after two lines wrote to the same file
TwoLinesOneFileClosed ==
    /\ pc = "done"
    /\ Len(cl.fs["o1"]) >= 2
    /\ cl.redirFileMap["o1"].opens = 1
    /\ cl.redirFileMap["o1"].closes = 1

\* the step of Process on a line that redirects with op to a file that can be
\* opened, the line being one the tokenizer accepts
IsRedirStep(op) ==
    /\ IsLineStep
    /\ ev'.what # "parseerr"
    /\ RedirAt(ev'.line) < Len(ev'.line)
    /\ ev'.line[RedirAt(ev'.line)] = op
    /\ ev'.line[RedirAt(ev'.line) + 1] \in RedirNames

\* what the command of the line of a step writes in that step: echo, its
\* arguments; the other commands of the lines, nothing
OutputOfStep(e) ==
    IF e.name = "echo" THEN << SubSeq(e.line, 2, RedirAt(e.line) - 1) >> ELSE <<>>

\* C24: a line with > leaves in its target only what its own command wrote,
\* and for a target that is cached it neither opens nor closes a file; a line
\* with >> leaves what the target held, followed by what its command wrote
RedirectTruncatesOrAppends ==
    [][/\ IsRedirStep(">") =>
            LET n == ev'.line[RedirAt(ev'.line) + 1] IN
            /\ cl'.fs[n] = OutputOfStep(ev')
            /\ cl.redirFileMap[n].cached =>
                   /\ cl'.redirFileMap[n].opens = cl.redirFileMap[n].opens
                   /\ cl'.redirFileMap[n].closes = cl.redirFileMap[n].closes
       /\ IsRedirStep(">>") =>
            LET n == ev'.line[RedirAt(ev'.line) + 1] IN
            cl'.fs[n] = cl.fs[n] \o OutputOfStep(ev')]_vars

\* after `echo x > o1' then `echo y >> o1' the file holds x, then y
AppendedAfterTruncate ==
    /\ ev.kind = "line"
    /\ ev.line = <<"echo", "y", ">>", "o1">>
    /\ cl.fs["o1"] = << <<"x">>, <<"y">> >>
    /\ ~cl.redirFileMap["o1"].app

----------------------------------------------------------------------------
(* Function definitions *)

\* the step of Process on a line `fn NAME {' whose block ends with the input,
\* no line "}" having been read
IsFnBlockAtEofStep ==
    /\ IsLineStep
    /\ ev'.name = "fn"
    /\ Len(ev'.line) >= 3
    /\ ev'.line[1] = "fn"
    /\ ev'.line[3] = "{"
    /\ cl'.cur.lineReader.text # <<"}">>

\* C25: when the block of `fn NAME {' reaches the end of the input before a
\* line "}", fn fails and the function table is as it was: no entry for NAME
\* is made, and an entry NAME had keeps its body
FnAtEofLeavesFuncMap ==
    [][IsFnBlockAtEofStep =>
           /\ ev'.fnErr
           /\ ~cl'.lastOk
           /\ cl'.funcMap = cl.funcMap]_vars

\* fn has failed on a block that the input cut short, for a function that
\* was defined before and still has its body
FnFailedOldBodyKept ==
    /\ ev.kind = "line"
    /\ ev.line = <<"fn", "f", "{">>
    /\ ev.fnErr
    /\ cl.cur.lineReader.text # <<"}">>
    /\ cl.funcMap["f"].def
    /\ cl.funcMap["f"].body = << <<"true">> >>

----------------------------------------------------------------------------
(* Lines that the tokenizer refuses *)

\* the text s starts with "^", or has a variable reference with a second "#"
StartsWithCaretOrCountsTwice(s) ==
    \/ s # <<>> /\ s[1] = "^"
    \/ \E i \in 1..Len(s) - 2 : s[i] = "$" /\ s[i + 1] = "#" /\ s[i + 2] = "#"

\* C26: ParseCmdLine returns an error for a line that starts with "^" and for
\* one with the reference $##; with flag e off the step of Process on such a
\* line runs no command, sets lastOk to false, leaves the input stack and the
\* environment stack as they were, and the loop goes on with the scanner
\* where it was
RefusedLineIsDiscarded ==
    [][(IsLineStep /\ ~cl.flags.e /\ StartsWithCaretOrCountsTwice(LineText(ev'.line))) =>
           /\ rcParseCmdLine([nil |-> TRUE, env |-> <<>>], LineText(ev'.line)).err # ""
           /\ ev'.what = "parseerr"
           /\ ~cl'.lastOk
           /\ cl' = [cl EXCEPT !.lastOk = FALSE, !.cur.g = cl'.cur.g]
           /\ pc' = "top"]_vars

\* a line of a sourced file has been refused after a command that succeeded,
\* and the file is still being read
RefusedLineInFile ==
    /\ ev.kind = "line"
    /\ ev.what = "parseerr"
    /\ ev.line = <<"true", "$##">>
    /\ ev.depth0 = 1
    /\ Len(cl.inputStack) = 1
    /\ cl.cur.lineReader.lines = << <<"true">> >>
    /\ ~cl.lastOk

----------------------------------------------------------------------------
(* The environment stack, call by call *)

\* the frames of the stack s that bind name
Binding(s, name) == {i \in 1..Len(s) : s[i][name].k # "unbound"}

----------------------------------------------------------------------------
(* Joining and reading back *)

\* C28: for every list L of strings (elements that are empty or that hold
\* white space, quotes or special characters included, the first one too)
\* Tokenize(Join(L)) is L
TokenizeOfJoinIsList == ev.op = "join" => ev.Fields = ev.list

\* C29: for every list L of strings ParseCmdLine(JoinCmd(L)), without Getenv,
\* succeeds with Fields L, no assignments and no redirection, also when an
\* element, the first one too, is NAME=VALUE, has a value that needs quoting,
\* or is empty
ParseOfJoinCmdIsList ==
    ev.op = "joincmd" =>
        /\ ev.err = ""
        /\ ev.Fields = ev.list
        /\ ev.Assignments = <<>>
        /\ ev.Redir.Type = <<>>

RECURSIVE Doubled(_)
\* s with every quote doubled
Doubled(s) ==
    IF s = <<>> THEN <<>>
    ELSE (IF Head(s) = "'" THEN <<"'", "'">> ELSE <<Head(s)>>) \o Doubled(Tail(s))

\* s as it is, or between quotes with its quotes doubled if one of its
\* characters needs quoting
Wrapped(s) ==
    IF \E i \in 1..Len(s) : NeedsQuote(s[i]) THEN <<"'">> \o Doubled(s) \o <<"'">>
    ELSE s

RECURSIVE SegmentsWrapped(_, _)
\* the segments of s between its "=" characters, each wrapped on its own,
\* with the "=" characters between them; seg is the segment begun
SegmentsWrapped(seg, s) ==
    IF s = <<>> THEN Wrapped(seg)
    ELSE IF Head(s) = "=" THEN Wrapped(seg) \o <<"=">> \o SegmentsWrapped(<<>>, Tail(s))
    ELSE SegmentsWrapped(Append(seg, Head(s)), Tail(s))

\* C30: QuoteCmd(s) is the segments of s that hold no "=", each rendered as
\* Quote renders it if it is not empty, joined by the "=" characters of s in
\* their places; Quote(s) puts all of s between quotes when a character of
\* it, "=" included, needs quoting
QuoteCmdQuotesSegments ==
    ev.op = "quote" =>
        /\ ev.text = SegmentsWrapped(<<>>, ev.list[1])
        /\ ev.whole = Wrapped(ev.list[1])

\* QuoteCmd has been applied to a=b'c=d
QuotedAroundEquals ==
    /\ ev.op = "quote"
    /\ ev.list[1] = <<"a", "=", "b", "'", "c", "=", "d">>
    /\ ev.text = <<"a", "=", "'", "b", "'", "'", "c", "'", "=", "d">>
    /\ ev.whole = <<"'", "a", "=", "b", "'", "'", "c", "=", "d", "'">>

----------------------------------------------------------------------------
(* Variable references *)

\* the decimal number that the digits d write
RECURSIVE DecimalValue(_)
DecimalValue(d) ==
    IF d = <<>> THEN 0
    ELSE 10 * DecimalValue(SubSeq(d, 1, Len(d) - 1))
         + (CHOOSE n \in 0..9 : <<"0", "1", "2", "3", "4", "5", "6", "7", "8", "9">>[n + 1] = d[Len(d)])

\* the fields that a line made of one reference is said to give when the
\* variables hold what get tells: no field for $name with name unset, the
\* length of the list for $#name, the n-th element of * or the empty string
\* for $n, the i-th element of name for $name(i) or the empty string when i
\* is 0, missing or beyond the list.  "other" for every other line
ReferenceFields(get(_), s) ==
    LET IsName(n) == n # <<>> /\ \A i \in 1..Len(n) : n[i] \in {"a", "r", "g", "s"}
        IsNumber(d) == \A i \in 1..Len(d) : d[i] \in {"0", "1", "2", "3", "4", "5", "6", "7", "8", "9"}
        Nth(l, n) == IF n \in 1..Len(l) THEN l[n] ELSE <<>>
        Open == CHOOSE i \in 1..Len(s) : s[i] = "("
    IN  IF Len(s) < 2 \/ s[1] # "$" THEN "other"
        ELSE IF s[2] = "#" /\ IsName(SubSeq(s, 3, Len(s)))
        THEN << <<(<<"0", "1", "2", "3">>)[Len(get(SubSeq(s, 3, Len(s)))) + 1]>> >>
        ELSE IF IsNumber(Tail(s)) /\ s[2] # "0"
        THEN << Nth(get(<<"*">>), DecimalValue(Tail(s))) >>
        ELSE IF IsName(Tail(s))
        THEN IF get(Tail(s)) = <<>> THEN <<>> ELSE "other"
        ELSE IF /\ s[Len(s)] = ")" /\ \E i \in 1..Len(s) : s[i] = "("
                /\ IsName(SubSeq(s, 2, Open - 1))
                /\ IsNumber(SubSeq(s, Open + 1, Len(s) - 1))
        THEN << Nth(get(SubSeq(s, 2, Open - 1)),
                    DecimalValue(SubSeq(s, Open + 1, Len(s) - 1))) >>
        ELSE "other"

\* C31: with Getenv configured, $name with name unset gives no field, $#name
\* gives the length of the list of name, $n (n >= 1) gives the n-th element
\* of * or the empty string, and $name(i) gives the i-th element of name, or
\* the empty string when i is 0, missing or beyond the list
ReferenceExpandsAsDocumented ==
    LET get(name) == IF name \in DOMAIN ev.getenv.env THEN ev.getenv.env[name] ELSE <<>>
    IN  (ev.op = "parse" /\ ~ev.getenv.nil /\ ReferenceFields(get, ev.s) # "other") =>
            /\ ev.res.err = ""
            /\ ev.res.Fields = ReferenceFields(get, ev.s)

\* C32: a field that refers to a variable of n >= 2 values gives several
\* fields, when the reference is the whole field ($args) and when it is part
\* of a concatenation (a^$args, x$args): it never gives one field
MultiValuedReferenceSplits ==
    (/\ ev.op = "parse" /\ ~ev.getenv.nil
     /\ \E p \in {<<>>, <<"a">>, <<"a", "^">>, <<"x">>} :
          \E name \in DOMAIN ev.getenv.env :
             /\ Len(ev.getenv.env[name]) >= 2
             /\ ev.s = p \o <<"$">> \o name) =>
        /\ ev.res.err = ""
        /\ Len(ev.res.Fields) >= 2

----------------------------------------------------------------------------
(* Assignments in front of a line *)

\* the words of s: its maximal runs of characters other than the space
RECURSIVE Words(_)
Words(s) ==
    LET n == IF \E i \in 1..Len(s) : s[i] = " "
             THEN (CHOOSE i \in 1..Len(s) : s[i] = " " /\ \A j \in 1..i - 1 : s[j] # " ") - 1
             ELSE Len(s)
    IN  IF s = <<>> THEN <<>>
        ELSE IF n = 0 THEN Words(Tail(s))
        ELSE <<SubSeq(s, 1, n)>> \o Words(SubSeq(s, n + 2, Len(s)))

\* w is NAME=VALUE with a name that is not empty; EqualsAt is the place of
\* its first =
EqualsAt(w) == CHOOSE i \in 1..Len(w) : w[i] = "=" /\ \A j \in 1..i - 1 : w[j] # "="

IsNameValue(w) == \E i \in 2..Len(w) : w[i] = "="

\* the number of words in the maximal run of NAME=VALUE words in front
RECURSIVE LeadingRun(_)
LeadingRun(words) ==
    IF words = <<>> \/ ~IsNameValue(Head(words)) THEN 0
    ELSE 1 + LeadingRun(Tail(words))

\* C33: Assignments holds exactly the maximal run of NAME=VALUE fields in
\* front of the line, each name bound to what follows its first =; the first
\* field that is not an assignment ends the run, and every later field with
\* an = and every field that starts with = is an ordinary field
AssignmentsAreLeadingRun ==
    LET words == Words(ev.s)
        n == LeadingRun(words)
    IN  (/\ ev.op = "parse"
         /\ \A i \in 1..Len(ev.s) : ev.s[i] \in {"a", "b", "=", " "}) =>
            /\ ev.res.err = ""
            /\ DOMAIN ev.res.Assignments =
                 {SubSeq(words[i], 1, EqualsAt(words[i]) - 1) : i \in 1..n}
            /\ \A i \in 1..n :
                 (\A j \in i + 1..n : SubSeq(words[j], 1, EqualsAt(words[j]) - 1)
                                        # SubSeq(words[i], 1, EqualsAt(words[i]) - 1)) =>
                    ev.res.Assignments[SubSeq(words[i], 1, EqualsAt(words[i]) - 1)]
                      = <<SubSeq(words[i], EqualsAt(words[i]) + 1, Len(words[i]))>>
            /\ ev.res.Fields = SubSeq(words, n + 1, Len(words))


\* C34: in a NAME=VALUE field in front, references, quoting and ^ are
\* expanded in NAME and in VALUE: with foo = bar, ba = fo, ar = az the line
\* $foo=ba'z' b$ar=$ba^o $bar gives the assignments bar=baz and baz=foo, and
\* a=b$foo=c foo gives a the value bbar=c; with a = b, $a=a binds b and a=$a
\* binds a to b
AssignmentPartsExpanded ==
    LET get(name) == IF name \in DOMAIN ev.getenv.env THEN ev.getenv.env[name] ELSE <<>>
    IN  (ev.op = "parse" /\ ~ev.getenv.nil) =>
          /\ (/\ get(<<"f", "o", "o">>) = <<<<"b", "a", "r">>>> /\ get(<<"b", "a">>) = <<<<"f", "o">>>> /\ get(<<"a", "r">>) = <<<<"a", "z">>>>
              /\ get(<<"b", "a", "r">>) = << <<>> >>) =>
                /\ ev.s = <<"$", "f", "o", "o", "=", "b", "a", "'", "z", "'", " ", "b", "$", "a", "r", "=", "$", "b", "a", "^", "o", " ", "$", "b", "a", "r">> =>
                     /\ ev.res.err = ""
                     /\ ev.res.Assignments = (<<"b", "a", "r">> :> <<<<"b", "a", "z">>>>) @@ (<<"b", "a", "z">> :> <<<<"f", "o", "o">>>>)
                     /\ ev.res.Fields = << <<>> >>
                /\ ev.s = <<"a", "=", "b", "$", "f", "o", "o", "=", "c", " ", "f", "o", "o", " ", "d", "=", "e">> =>
                     /\ ev.res.err = ""
                     /\ ev.res.Assignments = (<<"a">> :> <<<<"b", "b", "a", "r", "=", "c">>>>)
                     /\ ev.res.Fields = <<<<"f", "o", "o">>, <<"d", "=", "e">>>>
          /\ get(<<"a">>) = << <<"b">> >> =>
                /\ ev.s = <<"$", "a", "=", "a">> =>
                     /\ ev.res.err = ""
                     /\ ev.res.Assignments = (<<"b">> :> << <<"a">> >>)
                     /\ ev.res.Fields = <<>>
                /\ ev.s = <<"a", "=", "$", "a">> =>
                     /\ ev.res.err = ""
                     /\ ev.res.Assignments = (<<"a">> :> << <<"b">> >>)
                     /\ ev.res.Fields = <<>>

\* the first line has been parsed, with its two assignments
TwoExpandedAssignments ==
    /\ ev.op = "parse"
    /\ ev.s = <<"$", "f", "o", "o", "=", "b", "a", "'", "z", "'", " ", "b", "$", "a", "r", "=", "$", "b", "a", "^", "o", " ", "$", "b", "a", "r">>
    /\ ev.res.err = ""
    /\ DOMAIN ev.res.Assignments = {<<"b", "a", "r">>, <<"b", "a", "z">>}

----------------------------------------------------------------------------
(* The redirection of a line *)

\* C35: for every line that ParseCmdLine parses, Redir.Type is empty, <, >
\* or >>; when it is not empty, Redir.Filename is the field after the
\* operator, with or without white space between them, and Fields holds the
\* fields before the operator only
RedirIsOperatorAndFilename ==
    LET s == ev.s
        IsOp(i) == s[i] \in {"<", ">"}
        at == CHOOSE i \in 1..Len(s) : IsOp(i) /\ \A j \in 1..i - 1 : ~IsOp(j)
        after == SubSeq(s, at + Len(ev.res.Redir.Type), Len(s))
    IN  (/\ ev.op = "parse" /\ ev.res.err = ""
         /\ \A i \in 1..Len(s) : s[i] \in {"a", "<", ">", " "}) =>
            /\ ev.res.Redir.Type \in {<<>>, <<"<">>, <<">">>, <<">", ">">>}
            /\ ev.res.Redir.Type = <<>> =>
                 /\ \A i \in 1..Len(s) : ~IsOp(i)
                 /\ ev.res.Fields = Words(s)
            /\ ev.res.Redir.Type # <<>> =>
                 /\ ev.res.Redir.Filename =
                      (IF Words(after) = <<>> THEN <<>> ELSE Words(after)[1])
                 /\ ev.res.Fields = Words(SubSeq(s, 1, at - 1))

----------------------------------------------------------------------------
(* ParseCmdLine returns *)

\* C37: for every line, with or without Getenv, ParseCmdLine returns a
\* CmdLine or an error: it never aborts with a run-time panic, not for an
\* unset variable next to text, not for an assignment whose name expands to
\* nothing, and not, without Getenv, for an assignment with a quoted value
ParseCmdLineIsTotal == ev.op = "parse" => ev.res.err # "panic"

----------------------------------------------------------------------------
(* return outside a function *)

\* the step processes the line `return' while neither the current frame nor
\* a frame of the input stack is the frame of a function
IsReturnOutsideFunctionStep ==
    /\ IsLineStep
    /\ ev'.line = <<"return">>
    /\ ev'.what = "ran"
    /\ ~cl.cur.isFunc
    /\ \A i \in 1..Len(cl.inputStack) : ~cl.inputStack[i].isFunc

\* C36: when `return' fails because no function frame is on the input stack
\* (in a sourced file or in a repeat body at top level), the input stack is
\* left as it was: no frame is popped
ReturnOutsideFunctionKeepsStack ==
    [][IsReturnOutsideFunctionStep =>
           /\ ev'.fnErr
           /\ Len(cl'.inputStack) = Len(cl.inputStack)]_vars

----------------------------------------------------------------------------
(* MultiScanner *)

\* C38: MultiScanner delivers every line of every underlying scanner once
\* and in the order of its scanner, delivers no line that no scanner gave,
\* and once all scanners are exhausted and their lines delivered Scan has
\* returned false with a nil Err
MultiScannerDeliversLinesOnce ==
    pc = "multi" =>
        /\ \A j \in 1..Len(ev) :
              \E i \in 1..MaxScanners : \E k \in 1..cl.s[i].sent : ev[j] = ScanText(i, k)
        /\ \A i \in 1..MaxScanners :
              \E n \in 0..cl.s[i].sent :
                 SelectSeq(ev, LAMBDA t : t # <<>> /\ t[1] = ScanText(i, 1)[1])
                    = [k \in 1..n |-> ScanText(i, k)]
        /\ ((\A i \in 1..MaxScanners : cl.s[i].done) /\ cl.c = <<>>) =>
              /\ \A i \in 1..MaxScanners :
                    \A k \in 1..cl.s[i].sent : \E j \in 1..Len(ev) : ev[j] = ScanText(i, k)
              /\ cl.ok = "false"
              /\ cl.line.err = "nil"

----------------------------------------------------------------------------
(* tidata.ReadAll and malformed lines *)

\* the number of tabs in front of the line l
RECURSIVE LeadingTabs(_)
LeadingTabs(l) == IF l # <<>> /\ Head(l) = "\t" THEN 1 + LeadingTabs(Tail(l)) ELSE 0

\* line j of the input is malformed: a space after its tabs, white space at
\* its end, or more tabs than the line before it can be the parent of
MalformedLine(input, j) ==
    \/ LeadingTabs(input[j]) < Len(input[j]) /\ input[j][LeadingTabs(input[j]) + 1] = " "
    \/ input[j][Len(input[j])] \in {" ", "\t"}
    \/ LeadingTabs(input[j]) > IF j = 1 THEN 0 ELSE LeadingTabs(input[j - 1]) + 1

\* C39: ReadAll returns an error that is not nil whenever a line of the
\* input is malformed, wherever the line is (the last line, a line of a
\* nested level) and however the goroutines are scheduled
ReadAllReportsMalformedLine ==
    (/\ pc = "tidata"
     /\ cl.rd.pc = "done"
     /\ \E j \in 1..Len(cl.input) : MalformedLine(cl.input, j)) =>
        cl.rd.err # 0

----------------------------------------------------------------------------
(* The status of the last command *)

\* the step runs a command whose descriptor is not weakStatus
RanStrong == IsLineStep /\ ev'.what = "ran" /\ ~ev'.weak

====
